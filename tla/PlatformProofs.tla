----------------------------- MODULE PlatformProofs -----------------------------
(***************************************************************************)
(* Proofs about what the program stands on: the gate of the AI router and  *)
(* the credentials its calls take in turn, for any number of calls, of     *)
(* providers and of credentials, and any limits.                           *)
(***************************************************************************)
EXTENDS PlatformMC, FiniteSetTheorems, WellFoundedInduction, TLAPS

-----------------------------------------------------------------------------
(* Positions of a sequence.                                                *)

\* A set of natural numbers has a least element.
LEMMA LeastExists ==
  ASSUME NEW S \in SUBSET Nat, S # {}
  PROVE  \E x \in S : \A y \in S : x <= y
<1> DEFINE Less == OpToRel(<, Nat)
<1>1. IsWellFoundedOn(Less, Nat)
  BY NatLessThanWellFounded
<1> HIDE DEF Less
<1>2. \E x \in S : \A y \in S : <<y, x>> \notin Less
  BY <1>1, WFMin
<1>3. PICK x \in S : \A y \in S : <<y, x>> \notin Less
  BY <1>2
<1>4. ASSUME NEW y \in S PROVE x <= y
  <2>1. x \in Nat /\ y \in Nat
    OBVIOUS
  <2>2. y < x => <<y, x>> \in Less
    BY <2>1 DEF Less, OpToRel
  <2> QED
    BY <1>3, <2>1, <2>2
<1> QED
  BY <1>4

\* Finitely many positions have a last one.
LEMMA LastExists ==
  ASSUME NEW n \in Nat, NEW S \in SUBSET 1..n, S # {}
  PROVE  \E x \in S : \A y \in S : y <= x
<1> DEFINE T == {n - x : x \in S}
<1>1. T \in SUBSET Nat /\ T # {}
  <2>1. ASSUME NEW x \in S PROVE n - x \in Nat
    BY x \in 1..n
  <2>2. PICK x \in S : TRUE
    OBVIOUS
  <2> QED
    BY <2>1, <2>2
<1>2. PICK t \in T : \A u \in T : t <= u
  BY <1>1, LeastExists
<1>3. PICK x \in S : t = n - x
  OBVIOUS
<1>4. ASSUME NEW y \in S PROVE y <= x
  <2>1. n - y \in T
    OBVIOUS
  <2>2. n - x <= n - y
    BY <1>2, <1>3, <2>1
  <2> QED
    BY <2>2
<1> QED
  BY <1>4

\* The ranks of n positions are the numbers from 1 to n, in the same order.
LEMMA Ranks ==
  ASSUME NEW n \in Nat, NEW I \in SUBSET 1..n
  PROVE  /\ IsFiniteSet(I) /\ Cardinality(I) \in Nat
         /\ \A i \in I : Rank(I, i) \in 1..Cardinality(I)
         /\ \A i, j \in I : i < j => Rank(I, i) < Rank(I, j)
         /\ \A k \in 1..Cardinality(I) : \E i \in I : Rank(I, i) = k
<1> DEFINE upto(i) == {j \in I : j <= i}
<1>1. IsFiniteSet(I) /\ Cardinality(I) \in Nat
  <2>1. IsFiniteSet(1..n)
    BY FS_Interval
  <2> QED
    BY <2>1, FS_Subset, FS_CardinalityType
<1>2. ASSUME NEW i \in I
      PROVE  IsFiniteSet(upto(i)) /\ Cardinality(upto(i)) \in 1..Cardinality(I)
  <2>1. IsFiniteSet(upto(i)) /\ Cardinality(upto(i)) <= Cardinality(I)
    BY <1>1, FS_Subset
  <2>2. Cardinality(upto(i)) \in Nat
    BY <2>1, FS_CardinalityType
  <2>3. i \in upto(i)
    OBVIOUS
  <2>4. Cardinality(upto(i)) # 0
    BY <2>1, <2>3, FS_EmptySet
  <2> QED
    BY <1>1, <2>1, <2>2, <2>4
<1>3. ASSUME NEW i \in I, NEW j \in I, i < j
      PROVE  Cardinality(upto(i)) < Cardinality(upto(j))
  <2>1. \A x \in I : x \in Int
    OBVIOUS
  <2>2. \A x \in I : x <= i => x <= j
    BY <1>3, <2>1
  <2>3. j <= j /\ ~(j <= i)
    BY <1>3, <2>1
  <2>4. upto(i) \in SUBSET upto(j) /\ j \in upto(j) /\ j \notin upto(i)
    BY <2>2, <2>3
  <2>5. Cardinality(upto(i)) <= Cardinality(upto(j)) /\ Cardinality(upto(i)) # Cardinality(upto(j))
    BY <1>2, <2>4, FS_Subset
  <2> QED
    BY <1>2, <2>5
<1>4. ASSUME NEW k \in 1..Cardinality(I)
      PROVE  \E i \in I : Rank(I, i) = k
  <2> DEFINE f == [i \in I |-> Cardinality(upto(i))]
  <2>1. f \in Injection(I, 1..Cardinality(I))
    <3>1. f \in [I -> 1..Cardinality(I)]
      BY <1>2
    <3>2. ASSUME NEW i \in I, NEW j \in I, f[i] = f[j] PROVE i = j
      <4>1. i < j \/ j < i \/ i = j
        OBVIOUS
      <4>2. i < j => f[i] < f[j]
        BY <1>3
      <4>3. j < i => f[j] < f[i]
        BY <1>3
      <4>4. f[i] \in Nat /\ f[j] \in Nat
        BY <3>1
      <4> QED
        BY <3>2, <4>1, <4>2, <4>3, <4>4
    <3> HIDE DEF f
    <3> QED
      BY <3>1, <3>2 DEF Injection, IsInjective
  <2>2. IsFiniteSet(1..Cardinality(I)) /\ Cardinality(1..Cardinality(I)) = Cardinality(I)
    BY <1>1, FS_Interval
  <2> HIDE DEF f
  <2>3. f \in Surjection(I, 1..Cardinality(I))
    BY <2>1, <2>2, FS_Injection
  <2>4. PICK i \in I : f[i] = k
    BY <2>3 DEF Surjection
  <2> QED
    BY <2>4 DEF f, Rank
<1> QED
  BY <1>1, <1>2, <1>3, <1>4 DEF Rank

\* What Entries keeps: the entries at the given positions, each once and in order.
LEMMA EntriesOf ==
  ASSUME NEW T, NEW seq \in Seq(T), NEW I \in SUBSET DOMAIN seq
  PROVE  /\ IsFiniteSet(I) /\ Cardinality(I) \in Nat
         /\ Entries(seq, I) \in Seq(T)
         /\ Len(Entries(seq, I)) = Cardinality(I)
         /\ \A i \in I : /\ Rank(I, i) \in 1..Cardinality(I)
                         /\ Entries(seq, I)[Rank(I, i)] = seq[i]
         /\ \A k \in 1..Cardinality(I) : \E i \in I : Rank(I, i) = k /\ Entries(seq, I)[k] = seq[i]
         /\ \A i, j \in I : Rank(I, i) = Rank(I, j) => i = j
<1> DEFINE at(k) == CHOOSE i \in I : Rank(I, i) = k
           kept == [k \in 1..Cardinality(I) |-> seq[at(k)]]
<1>1. I \in SUBSET 1..Len(seq) /\ Len(seq) \in Nat
  OBVIOUS
<1>2. /\ IsFiniteSet(I) /\ Cardinality(I) \in Nat
      /\ \A i \in I : Rank(I, i) \in 1..Cardinality(I)
      /\ \A i, j \in I : i < j => Rank(I, i) < Rank(I, j)
      /\ \A k \in 1..Cardinality(I) : \E i \in I : Rank(I, i) = k
  BY <1>1, Ranks
<1>3. \A k \in 1..Cardinality(I) : at(k) \in I /\ Rank(I, at(k)) = k
  BY <1>2
<1>4. ASSUME NEW i \in I, NEW j \in I, Rank(I, i) = Rank(I, j) PROVE i = j
  <2>1. i \in Nat /\ j \in Nat /\ Rank(I, i) \in Nat
    BY <1>1, <1>2
  <2> QED
    BY <1>2, <1>4, <2>1
<1>5. \A i \in I : at(Rank(I, i)) = i
  BY <1>2, <1>3, <1>4
<1>6. kept = Entries(seq, I)
  BY DEF Entries
<1> HIDE DEF at
<1>7. \A k \in 1..Cardinality(I) : seq[at(k)] \in T
  BY <1>1, <1>3
<1>8. kept \in Seq(T) /\ Len(kept) = Cardinality(I)
  BY <1>2, <1>7
<1>9. /\ \A i \in I : kept[Rank(I, i)] = seq[i]
      /\ \A k \in 1..Cardinality(I) : kept[k] = seq[at(k)]
  BY <1>2, <1>5
<1> HIDE DEF kept
<1> QED
  BY <1>2, <1>3, <1>4, <1>6, <1>8, <1>9

\* A filtered list holds members of the filter only.
LEMMA Filtered ==
  ASSUME NEW T, NEW seq \in Seq(T), NEW S
  PROVE  /\ Those(seq, S) \in Seq(T) /\ Those(seq, S) \in Seq(S)
         /\ Without(seq, S) \in Seq(T)
<1> DEFINE I == {i \in DOMAIN seq : seq[i] \in S}
           J == {i \in DOMAIN seq : seq[i] \notin S}
<1>1. I \in SUBSET DOMAIN seq /\ J \in SUBSET DOMAIN seq
  OBVIOUS
<1>2. \A i \in I : seq[i] \in S
  OBVIOUS
<1>3. Those(seq, S) = Entries(seq, I) /\ Without(seq, S) = Entries(seq, J)
  BY DEF Those, Without
<1> HIDE DEF I, J
<1>4. Those(seq, S) \in Seq(T) /\ Without(seq, S) \in Seq(T)
  BY <1>1, <1>3, EntriesOf
<1>5. \A k \in 1..Len(Those(seq, S)) : Those(seq, S)[k] \in S
  BY <1>1, <1>2, <1>3, EntriesOf
<1>6. Those(seq, S) \in Seq(S)
  BY <1>4, <1>5
<1> QED
  BY <1>4, <1>6

-----------------------------------------------------------------------------
(* The gate.                                                               *)

Item == [id : Requests, provider : AiProviders, capability : Capabilities]
Places == AiProviders \X {"TEXT", "MEDIA"}
Gate == [queue : Seq(Item), providerActive : [Places -> Nat], capabilityActive : [Capabilities -> Nat]]

\* The pass of drain() over the first n of the queue, if it starts those at S.
Passes(g, S, n) ==
  \A i \in 1..n : i \in S <=> CanStart(Increment(g, {j \in S : j < i}), g.queue[i])

\* There is a pass: whether an item starts depends on those before it.
LEMMA StartableIs ==
  ASSUME NEW g \in Gate
  PROVE  Startable(g) \in SUBSET DOMAIN g.queue /\ Passes(g, Startable(g), Len(g.queue))
<1> DEFINE n == Len(g.queue)
           Done(m) == \E S \in SUBSET (1..m) : Passes(g, S, m)
           Bad == {m \in 0..n : ~Done(m)}
<1>1. n \in Nat /\ DOMAIN g.queue = 1..n
  BY DEF Gate
<1>2. Done(0)
  <2>1. Passes(g, {}, 0) /\ {} \in SUBSET (1..0)
    BY DEF Passes
  <2> QED
    BY <2>1
<1> HIDE DEF n
<1>3. ASSUME Bad # {} PROVE FALSE
  <2>1. Bad \in SUBSET Nat
    BY <1>1
  <2>2. PICK m \in Bad : \A x \in Bad : m <= x
    BY <1>3, <2>1, LeastExists
  <2>3. m \in 1..n /\ m \in Nat /\ m - 1 \in 0..n /\ ~Done(m)
    BY <1>1, <1>2, <2>2
  <2>4. Done(m - 1)
    BY <2>2, <2>3
  <2>5. PICK S \in SUBSET (1..(m - 1)) : Passes(g, S, m - 1)
    BY <2>4
  <2> DEFINE starts == CanStart(Increment(g, S), g.queue[m])
             U == IF starts THEN S \cup {m} ELSE S
  <2>6. U \in SUBSET (1..m) /\ m \notin S
    <3>1. \A j \in S : j \in 1..m /\ j # m
      BY <2>3
    <3>2. m \in 1..m
      BY <2>3
    <3>3. U = S \cup {m} \/ U = S
      OBVIOUS
    <3> HIDE DEF starts, U
    <3>4. \A j \in U : j \in 1..m
      BY <3>1, <3>2, <3>3
    <3> QED
      BY <3>1, <3>4
  <2>7. ASSUME NEW i \in 1..m
        PROVE  {j \in U : j < i} = {j \in S : j < i}
    <3>1. i \in Int /\ ~(m < i) /\ (U = S \/ U = S \cup {m})
      BY <2>3
    <3> HIDE DEF U
    <3> QED
      BY <3>1
  <2>8. {j \in S : j < m} = S
    <3>1. \A j \in S : j < m
      BY <2>3
    <3> QED
      BY <3>1
  <2>9. \A i \in 1..(m - 1) : i \in U <=> i \in S
    BY <2>3
  <2>10. m \in U <=> starts
    BY <2>6
  <2> HIDE DEF U
  <2>11. ASSUME NEW i \in 1..m
         PROVE  i \in U <=> CanStart(Increment(g, {j \in U : j < i}), g.queue[i])
    <3>1. CASE i = m
      BY <2>7, <2>8, <2>10, <3>1
    <3>2. CASE i # m
      <4>1. i \in 1..(m - 1)
        BY <2>3, <3>2
      <4>2. i \in S <=> CanStart(Increment(g, {j \in S : j < i}), g.queue[i])
        BY <2>5, <4>1 DEF Passes
      <4> QED
        BY <2>7, <2>9, <4>1, <4>2
    <3> QED
      BY <3>1, <3>2
  <2>12. Passes(g, U, m)
    BY <2>11 DEF Passes
  <2> QED
    BY <2>3, <2>6, <2>12
<1>4. \E S \in SUBSET DOMAIN g.queue : Passes(g, S, n)
  <2>1. n \in 0..n
    BY <1>1
  <2>2. Bad = {}
    BY <1>3
  <2>3. Done(n)
    BY <2>1, <2>2
  <2> QED
    BY <1>1, <2>3
<1>5. \E S \in SUBSET DOMAIN g.queue : \A i \in DOMAIN g.queue :
        i \in S <=> CanStart(Increment(g, {j \in S : j < i}), g.queue[i])
  BY <1>1, <1>4 DEF Passes
<1>6. /\ Startable(g) \in SUBSET DOMAIN g.queue
      /\ \A i \in DOMAIN g.queue :
        i \in Startable(g) <=> CanStart(Increment(g, {j \in Startable(g) : j < i}), g.queue[i])
  <2> DEFINE P(S) == \A i \in DOMAIN g.queue :
        i \in S <=> CanStart(Increment(g, {j \in S : j < i}), g.queue[i])
  <2>1. \E S \in SUBSET DOMAIN g.queue : P(S)
    BY <1>5
  <2>2. Startable(g) = CHOOSE S \in SUBSET DOMAIN g.queue : P(S)
    BY DEF Startable
  <2> HIDE DEF P
  <2>3. Startable(g) \in SUBSET DOMAIN g.queue /\ P(Startable(g))
    BY <2>1, <2>2
  <2> QED
    BY <2>3 DEF P
<1> QED
  BY <1>1, <1>6 DEF Passes, n

\* The positions among S whose call needs a slot of a provider's class, or of a capability.
AtPlace(g, S, place) == {i \in S : ItemKey(g.queue[i]) = place}
AtCapability(g, S, c) == {i \in S : g.queue[i].capability = c}

LEMMA IncrementIs ==
  ASSUME NEW g \in Gate, NEW S \in SUBSET DOMAIN g.queue
  PROVE  /\ Increment(g, S) \in Gate /\ Increment(g, S).queue = g.queue
         /\ IsFiniteSet(S)
         /\ \A place \in Places :
              /\ IsFiniteSet(AtPlace(g, S, place)) /\ Cardinality(AtPlace(g, S, place)) \in Nat
              /\ Increment(g, S).providerActive[place]
                   = g.providerActive[place] + Cardinality(AtPlace(g, S, place))
         /\ \A c \in Capabilities :
              /\ IsFiniteSet(AtCapability(g, S, c)) /\ Cardinality(AtCapability(g, S, c)) \in Nat
              /\ Increment(g, S).capabilityActive[c]
                   = g.capabilityActive[c] + Cardinality(AtCapability(g, S, c))
<1> DEFINE pa == [place \in Places |-> g.providerActive[place] + Cardinality(AtPlace(g, S, place))]
           ca == [c \in Capabilities |-> g.capabilityActive[c] + Cardinality(AtCapability(g, S, c))]
           h == Increment(g, S)
<1>1. /\ g.providerActive \in [Places -> Nat] /\ g.capabilityActive \in [Capabilities -> Nat]
      /\ g.queue \in Seq(Item) /\ DOMAIN g.providerActive = Places
      /\ DOMAIN g.capabilityActive = Capabilities
  BY DEF Gate
<1>2. IsFiniteSet(S)
  <2>1. DOMAIN g.queue = 1..Len(g.queue) /\ Len(g.queue) \in Nat
    BY <1>1
  <2>2. IsFiniteSet(1..Len(g.queue))
    BY <2>1, FS_Interval
  <2> QED
    BY <2>1, <2>2, FS_Subset
<1>3. \A place : IsFiniteSet(AtPlace(g, S, place)) /\ Cardinality(AtPlace(g, S, place)) \in Nat
  BY <1>2, FS_Subset, FS_CardinalityType DEF AtPlace
<1>4. \A c : IsFiniteSet(AtCapability(g, S, c)) /\ Cardinality(AtCapability(g, S, c)) \in Nat
  BY <1>2, FS_Subset, FS_CardinalityType DEF AtCapability
<1>5. pa \in [Places -> Nat] /\ ca \in [Capabilities -> Nat]
  BY <1>1, <1>3, <1>4
<1>6. h = [g EXCEPT !.providerActive = pa, !.capabilityActive = ca]
  BY <1>1 DEF Increment, AtPlace, AtCapability
<1> HIDE DEF h, pa, ca
<1>7. h \in Gate /\ h.queue = g.queue /\ h.providerActive = pa /\ h.capabilityActive = ca
  BY <1>5, <1>6 DEF Gate
<1> QED
  BY <1>2, <1>3, <1>4, <1>7 DEF h, pa, ca

LEMMA ItemHasPlace ==
  ASSUME NEW item \in Item
  PROVE  ItemKey(item) \in Places /\ item.capability \in Capabilities
BY DEF Item, ItemKey, ProviderKey, Places

\* The more has started, the less room there is: what can start after T, and asks for the
\* same slots, can start after fewer.
LEMMA RoomShrinks ==
  ASSUME NEW g \in Gate, NEW T \in SUBSET DOMAIN g.queue, NEW S \in SUBSET T,
         NEW a \in Item, NEW b \in Item, ItemKey(a) = ItemKey(b), a.capability = b.capability,
         CanStart(Increment(g, T), a)
  PROVE  CanStart(Increment(g, S), b)
<1> DEFINE place == ItemKey(a)
           c == a.capability
<1>1. place \in Places /\ c \in Capabilities
  BY ItemHasPlace
<1>2. S \in SUBSET DOMAIN g.queue
  OBVIOUS
<1>3. AtPlace(g, S, place) \in SUBSET AtPlace(g, T, place)
      /\ AtCapability(g, S, c) \in SUBSET AtCapability(g, T, c)
  BY DEF AtPlace, AtCapability
<1> HIDE DEF place, c
<1>4. Cardinality(AtPlace(g, S, place)) <= Cardinality(AtPlace(g, T, place))
      /\ Cardinality(AtCapability(g, S, c)) <= Cardinality(AtCapability(g, T, c))
  BY <1>1, <1>3, IncrementIs, FS_Subset
<1>5. /\ Increment(g, T).providerActive[place] < ProviderLimit[place]
      /\ Increment(g, T).capabilityActive[c] < CapabilityLimit[c]
  BY DEF CanStart, place, c
<1>6. /\ ProviderLimit[place] \in Nat /\ CapabilityLimit[c] \in Nat
      /\ g.providerActive[place] \in Nat /\ g.capabilityActive[c] \in Nat
  BY <1>1, LimitsAssumption DEF Gate, Places
<1> DEFINE cs == Cardinality(AtPlace(g, S, place))
           ct == Cardinality(AtPlace(g, T, place))
           ds == Cardinality(AtCapability(g, S, c))
           dt == Cardinality(AtCapability(g, T, c))
           lp == ProviderLimit[place]
           lc == CapabilityLimit[c]
           gp == g.providerActive[place]
           gc == g.capabilityActive[c]
<1>7. /\ cs \in Nat /\ ct \in Nat /\ Increment(g, S).providerActive[place] = gp + cs
      /\ Increment(g, T).providerActive[place] = gp + ct
  BY <1>1, <1>2, IncrementIs
<1>8. /\ ds \in Nat /\ dt \in Nat /\ Increment(g, S).capabilityActive[c] = gc + ds
      /\ Increment(g, T).capabilityActive[c] = gc + dt
  BY <1>1, <1>2, IncrementIs
<1> HIDE DEF cs, ct, ds, dt, lp, lc, gp, gc
<1>9. gp + cs < lp /\ gc + ds < lc
  <2>1. gp + ct < lp /\ gc + dt < lc
    BY <1>5, <1>7, <1>8 DEF lp, lc
  <2>2. cs <= ct /\ ds <= dt
    BY <1>4 DEF cs, ct, ds, dt
  <2>3. gp \in Nat /\ gc \in Nat /\ lp \in Nat /\ lc \in Nat
    BY <1>6 DEF gp, gc, lp, lc
  <2> QED
    BY <1>7, <1>8, <2>1, <2>2, <2>3
<1>10. ItemKey(b) = place /\ b.capability = c
  BY DEF place, c
<1> QED
  BY <1>7, <1>8, <1>9, <1>10 DEF CanStart, lp, lc

Distinct(g) == \A i, j \in DOMAIN g.queue : g.queue[i].id = g.queue[j].id => i = j

\* What drain() leaves: the items it did not start, in their order.
LEMMA DrainedIs ==
  ASSUME NEW g \in Gate
  PROVE  LET S == Startable(g)
         IN  /\ Drained(g) \in Gate
             /\ S \in SUBSET DOMAIN g.queue
             /\ Drained(g).providerActive = Increment(g, S).providerActive
             /\ Drained(g).capabilityActive = Increment(g, S).capabilityActive
             /\ \A k \in DOMAIN Drained(g).queue :
                  \E i \in DOMAIN g.queue \ S : Drained(g).queue[k] = g.queue[i]
             /\ \A i \in DOMAIN g.queue \ S :
                  \E k \in DOMAIN Drained(g).queue : Drained(g).queue[k] = g.queue[i]
             /\ Distinct(g) => Distinct(Drained(g))
<1> DEFINE S == Startable(g)
           I == DOMAIN g.queue \ S
           h == Increment(g, S)
           left == Entries(g.queue, I)
<1>1. S \in SUBSET DOMAIN g.queue /\ h \in Gate /\ h.queue = g.queue
  BY StartableIs, IncrementIs
<1>2. g.queue \in Seq(Item) /\ I \in SUBSET DOMAIN g.queue
  BY DEF Gate
<1>3. Drained(g) = [h EXCEPT !.queue = left]
  BY <1>1 DEF Drained
<1> HIDE DEF S, h
<1>4. /\ left \in Seq(Item) /\ Len(left) = Cardinality(I) /\ Cardinality(I) \in Nat
      /\ \A i \in I : Rank(I, i) \in 1..Cardinality(I) /\ left[Rank(I, i)] = g.queue[i]
      /\ \A k \in 1..Cardinality(I) : \E i \in I : Rank(I, i) = k /\ left[k] = g.queue[i]
  <2> HIDE DEF I
  <2> QED
    BY <1>2, EntriesOf
<1> HIDE DEF left
<1>5. /\ Drained(g) \in Gate /\ Drained(g).queue = left
      /\ Drained(g).providerActive = h.providerActive
      /\ Drained(g).capabilityActive = h.capabilityActive
  BY <1>1, <1>3, <1>4 DEF Gate
<1>6. DOMAIN left = 1..Cardinality(I)
  BY <1>4
<1>7. ASSUME Distinct(g), NEW k \in DOMAIN left, NEW l \in DOMAIN left, left[k].id = left[l].id
      PROVE  k = l
  <2> HIDE DEF I
  <2>1. PICK i \in I : Rank(I, i) = k /\ left[k] = g.queue[i]
    BY <1>4, <1>6
  <2>2. PICK j \in I : Rank(I, j) = l /\ left[l] = g.queue[j]
    BY <1>4, <1>6
  <2>3. i = j
    BY <1>2, <1>7, <2>1, <2>2 DEF Distinct
  <2> QED
    BY <2>1, <2>2, <2>3
<1> QED
  BY ZenonT(60), <1>1, <1>4, <1>5, <1>6, <1>7 DEF Distinct, S, h

\* After a pass nothing that waits can start.
LEMMA DrainedStops ==
  ASSUME NEW g \in Gate, NEW k \in DOMAIN Drained(g).queue
  PROVE  ~CanStart(Drained(g), Drained(g).queue[k])
<1> DEFINE S == Startable(g)
<1>1. S \in SUBSET DOMAIN g.queue /\ Passes(g, S, Len(g.queue))
  BY StartableIs
<1>2. /\ Drained(g).providerActive = Increment(g, S).providerActive
      /\ Drained(g).capabilityActive = Increment(g, S).capabilityActive
  BY DrainedIs
<1>3. PICK i \in DOMAIN g.queue \ S : Drained(g).queue[k] = g.queue[i]
  BY DrainedIs
<1> HIDE DEF S
<1>4. i \in 1..Len(g.queue) /\ g.queue[i] \in Item
  BY DEF Gate
<1>5. ~CanStart(Increment(g, {j \in S : j < i}), g.queue[i])
  BY <1>1, <1>3, <1>4 DEF Passes
<1>6. {j \in S : j < i} \in SUBSET S
  OBVIOUS
<1>7. ~CanStart(Increment(g, S), g.queue[i])
  BY <1>1, <1>4, <1>5, <1>6, RoomShrinks
<1> QED
  BY <1>2, <1>3, <1>7 DEF CanStart

\* A pass goes beyond no limit: the last item it starts at a place still found room.
LEMMA DrainedWithin ==
  ASSUME NEW g \in Gate,
         \A place \in Places : g.providerActive[place] <= ProviderLimit[place],
         \A c \in Capabilities : g.capabilityActive[c] <= CapabilityLimit[c]
  PROVE  /\ \A place \in Places : Drained(g).providerActive[place] <= ProviderLimit[place]
         /\ \A c \in Capabilities : Drained(g).capabilityActive[c] <= CapabilityLimit[c]
<1> DEFINE S == Startable(g)
<1>1. S \in SUBSET DOMAIN g.queue /\ Passes(g, S, Len(g.queue))
  BY StartableIs
<1>2. /\ Drained(g).providerActive = Increment(g, S).providerActive
      /\ Drained(g).capabilityActive = Increment(g, S).capabilityActive
  BY DrainedIs
<1>3. Len(g.queue) \in Nat /\ DOMAIN g.queue = 1..Len(g.queue)
  BY DEF Gate
<1> HIDE DEF S
<1>4. ASSUME NEW place \in Places
      PROVE  Drained(g).providerActive[place] <= ProviderLimit[place]
  <2> DEFINE A == AtPlace(g, S, place)
  <2>1. A \in SUBSET 1..Len(g.queue) /\ A \in SUBSET S
    BY <1>1, <1>3 DEF AtPlace
  <2>2. CASE A = {}
    <3>1. Cardinality(A) = 0
      BY <2>2, FS_EmptySet
    <3> QED
      BY <1>1, <1>2, <3>1, IncrementIs DEF Gate
  <2>3. CASE A # {}
    <3> HIDE DEF A
    <3>1. PICK i \in A : \A j \in A : j <= i
      BY <1>3, <2>1, <2>3, LastExists
    <3> DEFINE B == {j \in S : j < i}
               R == AtPlace(g, B, place)
    <3>2. /\ B \in SUBSET DOMAIN g.queue /\ i \in DOMAIN g.queue
          /\ i \in S /\ ItemKey(g.queue[i]) = place
      BY <1>1, <2>1, <3>1 DEF A, AtPlace
    <3>3. CanStart(Increment(g, B), g.queue[i])
      BY <1>1, <1>3, <3>2 DEF Passes
    <3>4. A = R \cup {i} /\ i \notin R
      <4>1. \A j \in S : j \in Int
        BY <1>1, <1>3
      <4>2. \A j \in A : j < i \/ j = i
        BY <2>1, <3>1, <4>1
      <4> QED
        BY <3>1, <3>2, <4>1, <4>2 DEF A, AtPlace
    <3> HIDE DEF B
    <3>5. IsFiniteSet(R) /\ Cardinality(R) \in Nat
          /\ Increment(g, B).providerActive[place] = g.providerActive[place] + Cardinality(R)
      BY <3>2, IncrementIs
    <3> HIDE DEF R
    <3>6. Cardinality(A) = Cardinality(R) + 1
      BY <3>4, <3>5, FS_AddElement
    <3>7. g.providerActive[place] + Cardinality(R) < ProviderLimit[place]
      BY <3>2, <3>3, <3>5 DEF CanStart
    <3>8. Increment(g, S).providerActive[place] = g.providerActive[place] + Cardinality(A)
      BY <1>1, IncrementIs DEF A
    <3>9. g.providerActive[place] \in Nat /\ ProviderLimit[place] \in Nat
      BY LimitsAssumption DEF Gate, Places
    <3> QED
      BY <1>2, <3>5, <3>6, <3>7, <3>8, <3>9
  <2> QED
    BY <2>2, <2>3
<1>5. ASSUME NEW c \in Capabilities
      PROVE  Drained(g).capabilityActive[c] <= CapabilityLimit[c]
  <2> DEFINE A == AtCapability(g, S, c)
  <2>1. A \in SUBSET 1..Len(g.queue) /\ A \in SUBSET S
    BY <1>1, <1>3 DEF AtCapability
  <2>2. CASE A = {}
    <3>1. Cardinality(A) = 0
      BY <2>2, FS_EmptySet
    <3> QED
      BY <1>1, <1>2, <3>1, IncrementIs DEF Gate
  <2>3. CASE A # {}
    <3> HIDE DEF A
    <3>1. PICK i \in A : \A j \in A : j <= i
      BY <1>3, <2>1, <2>3, LastExists
    <3> DEFINE B == {j \in S : j < i}
               R == AtCapability(g, B, c)
    <3>2. /\ B \in SUBSET DOMAIN g.queue /\ i \in DOMAIN g.queue
          /\ i \in S /\ g.queue[i].capability = c
      BY <1>1, <2>1, <3>1 DEF A, AtCapability
    <3>3. CanStart(Increment(g, B), g.queue[i])
      BY <1>1, <1>3, <3>2 DEF Passes
    <3>4. A = R \cup {i} /\ i \notin R
      <4>1. \A j \in S : j \in Int
        BY <1>1, <1>3
      <4>2. \A j \in A : j < i \/ j = i
        BY <2>1, <3>1, <4>1
      <4> QED
        BY <3>1, <3>2, <4>1, <4>2 DEF A, AtCapability
    <3> HIDE DEF B
    <3>5. IsFiniteSet(R) /\ Cardinality(R) \in Nat
          /\ Increment(g, B).capabilityActive[c] = g.capabilityActive[c] + Cardinality(R)
      BY <3>2, IncrementIs
    <3> HIDE DEF R
    <3>6. Cardinality(A) = Cardinality(R) + 1
      BY <3>4, <3>5, FS_AddElement
    <3>7. g.capabilityActive[c] + Cardinality(R) < CapabilityLimit[c]
      BY <3>2, <3>3, <3>5 DEF CanStart
    <3>8. Increment(g, S).capabilityActive[c] = g.capabilityActive[c] + Cardinality(A)
      BY <1>1, IncrementIs DEF A
    <3>9. g.capabilityActive[c] \in Nat /\ CapabilityLimit[c] \in Nat
      BY LimitsAssumption DEF Gate
    <3> QED
      BY <1>2, <3>5, <3>6, <3>7, <3>8, <3>9
  <2> QED
    BY <2>2, <2>3
<1> QED
  BY <1>4, <1>5

-----------------------------------------------------------------------------
(* The calls of the router.                                                *)

Asking == {"mode", "mode_wait", "allows", "allows_wait", "select"}
Begun == {"prompt", "queued"} \cup InGate \cup RecordPcs
Modes == {"NORMAL", "CONSERVE", "CRITICAL", "EXHAUSTED"}

Call == [pc : {"idle", "over"} \cup Asking \cup Begun, capability : Capabilities \cup {"none"},
         mode : Modes, value : [Paid -> Nat], selected : Seq(AiProviders),
         key : Keys \cup {NoKey}, turns : Nat, code : Failures \cup {"none"}]

\* A call that has chosen its providers has one to try, and knows what for.
Chosen(call) == call.pc \in Begun => call.capability \in Capabilities /\ call.selected # << >>
Asked(call) == call.pc \in Asking => call.capability \in Capabilities

Calls == {calls \in [Requests -> Call] : \A r \in Requests : Chosen(calls[r]) /\ Asked(calls[r])}

PlaceOf(call) == ProviderKey(Head(call.selected), call.capability)
Within(calls, place) == {r \in Requests : calls[r].pc \in InGate /\ PlaceOf(calls[r]) = place}
Doing(calls, c) == {r \in Requests : calls[r].pc \in InGate /\ calls[r].capability = c}

\* The item the gate holds for a waiting call.
ItemOf(calls, r) == [id |-> r, provider |-> Head(calls[r].selected), capability |-> calls[r].capability]

\* The counters are the calls inside and within the limits, the queue holds the calls that
\* wait, each once.
CountersAgreeWith(g, calls) ==
  /\ \A place \in Places : /\ g.providerActive[place] = Cardinality(Within(calls, place))
                           /\ g.providerActive[place] <= ProviderLimit[place]
  /\ \A c \in Capabilities : /\ g.capabilityActive[c] = Cardinality(Doing(calls, c))
                             /\ g.capabilityActive[c] <= CapabilityLimit[c]
QueueAgreesWith(g, calls) ==
  /\ Distinct(g)
  /\ \A i \in DOMAIN g.queue :
       calls[g.queue[i].id].pc = "queued" /\ g.queue[i] = ItemOf(calls, g.queue[i].id)
  /\ \A r \in Requests : calls[r].pc = "queued" => \E i \in DOMAIN g.queue : g.queue[i].id = r

GateAgrees(g, calls) == CountersAgreeWith(g, calls) /\ QueueAgreesWith(g, calls)

\* An injective function has as many values as arguments.
LEMMA ImageCardinality ==
  ASSUME NEW S, IsFiniteSet(S), NEW T, NEW f \in Injection(S, T)
  PROVE  IsFiniteSet({f[x] : x \in S}) /\ Cardinality({f[x] : x \in S}) = Cardinality(S)
<1> DEFINE U == {f[x] : x \in S}
<1>1. f \in [S -> U] /\ \A u \in U : \E x \in S : f[x] = u
  BY DEF Injection
<1>2. f \in Bijection(S, U)
  <2> HIDE DEF U
  <2> QED
    BY <1>1 DEF Bijection, Injection, Surjection, IsInjective
<1>3. ExistsBijection(S, U)
  BY <1>2 DEF ExistsBijection
<1> QED
  BY <1>3, FS_Bijection

LEMMA DisjointUnion ==
  ASSUME NEW S, IsFiniteSet(S), NEW T, IsFiniteSet(T), S \cap T = {}
  PROVE  Cardinality(S \cup T) = Cardinality(S) + Cardinality(T)
<1>1. Cardinality({}) = 0 /\ Cardinality(S) \in Nat /\ Cardinality(T) \in Nat
  BY FS_EmptySet, FS_CardinalityType
<1>2. Cardinality(S \cup T) = Cardinality(S) + Cardinality(T) - Cardinality(S \cap T)
  BY FS_Union
<1>3. Cardinality(S \cap T) = 0
  BY <1>1
<1> QED
  BY <1>1, <1>2, <1>3

LEMMA StartsIs ==
  ASSUME NEW g \in Gate, NEW calls \in Calls, QueueAgreesWith(g, calls)
  PROVE  /\ Starts(calls, g) \in Calls
         /\ \A r \in Requests :
              /\ r \in StartedBy(g) => /\ calls[r].pc = "queued" /\ Starts(calls, g)[r].pc = "admitted"
                                       /\ Starts(calls, g)[r].selected = calls[r].selected
                                       /\ Starts(calls, g)[r].capability = calls[r].capability
              /\ r \notin StartedBy(g) => Starts(calls, g)[r] = calls[r]
<1> DEFINE after == Starts(calls, g)
           turns == CredentialAttempts(Keys)
<1>1. turns \in Nat
  <2>1. Cardinality(Keys) \in Nat
    BY RoutingAssumption, FS_CardinalityType
  <2> QED
    BY <2>1 DEF CredentialAttempts
<1>2. \A r \in StartedBy(g) : r \in Requests /\ calls[r].pc = "queued"
  <2>1. Startable(g) \in SUBSET DOMAIN g.queue
    BY StartableIs
  <2>2. ASSUME NEW i \in DOMAIN g.queue PROVE g.queue[i].id \in Requests
    <3>1. g.queue[i] \in Item
      BY DEF Gate
    <3> QED
      BY <3>1 DEF Item
  <2> QED
    BY <2>1, <2>2 DEF StartedBy, QueueAgreesWith
<1> HIDE DEF turns
<1>3. ASSUME NEW r \in Requests
      PROVE  /\ after[r] \in Call /\ Chosen(after[r]) /\ Asked(after[r])
             /\ r \in StartedBy(g) => /\ after[r].pc = "admitted"
                                      /\ after[r].selected = calls[r].selected
                                      /\ after[r].capability = calls[r].capability
             /\ r \notin StartedBy(g) => after[r] = calls[r]
  <2> DEFINE call == calls[r]
  <2>1. call \in Call /\ Chosen(call) /\ Asked(call)
    BY DEF Calls
  <2>2. after[r] = IF r \in StartedBy(g) THEN [call EXCEPT !.pc = "admitted", !.turns = turns] ELSE call
    BY DEF Starts, turns
  <2>3. CASE r \in StartedBy(g)
    <3>1. call.pc = "queued"
      BY <1>2, <2>3
    <3> HIDE DEF call, after
    <3>2. call.capability \in Capabilities /\ call.selected # << >>
      BY <2>1, <3>1 DEF Chosen, Begun
    <3>3. /\ after[r] \in Call /\ after[r].pc = "admitted" /\ after[r].selected = call.selected
          /\ after[r].capability = call.capability
      BY <1>1, <2>1, <2>2, <2>3 DEF Call, Begun, InGate
    <3> QED
      BY <2>3, <3>2, <3>3 DEF Chosen, Asked, call, Asking
  <2>4. CASE r \notin StartedBy(g)
    BY <2>1, <2>2, <2>4
  <2> QED
    BY <2>3, <2>4
<1>4. after \in [Requests -> Call]
  BY <1>3 DEF Starts
<1> QED
  BY <1>2, <1>3, <1>4 DEF Calls

\* drain() keeps the gate in agreement with the calls: those it starts are inside.
LEMMA DrainAgrees ==
  ASSUME NEW g \in Gate, NEW calls \in Calls, GateAgrees(g, calls)
  PROVE  GateAgrees(Drained(g), Starts(calls, g))
<1> DEFINE S == Startable(g)
           after == Starts(calls, g)
           d == Drained(g)
<1>1. QueueAgreesWith(g, calls) /\ CountersAgreeWith(g, calls) /\ Distinct(g)
  BY DEF GateAgrees, QueueAgreesWith
<1>2. S \in SUBSET DOMAIN g.queue
  BY StartableIs
<1>3. ASSUME NEW i \in DOMAIN g.queue
      PROVE  /\ g.queue[i].id \in Requests /\ g.queue[i] \in Item
             /\ calls[g.queue[i].id].pc = "queued"
             /\ g.queue[i] = ItemOf(calls, g.queue[i].id)
  <2>1. g.queue[i] \in Item
    BY DEF Gate
  <2> QED
    BY <1>1, <2>1 DEF Item, QueueAgreesWith
<1>4. ASSUME NEW i \in DOMAIN g.queue
      PROVE  /\ ItemKey(g.queue[i]) = PlaceOf(calls[g.queue[i].id])
             /\ g.queue[i].capability = calls[g.queue[i].id].capability
  <2>1. \A r : ItemOf(calls, r).provider = Head(calls[r].selected)
               /\ ItemOf(calls, r).capability = calls[r].capability
    BY DEF ItemOf
  <2>2. /\ g.queue[i].provider = Head(calls[g.queue[i].id].selected)
        /\ g.queue[i].capability = calls[g.queue[i].id].capability
    BY <1>3, <2>1
  <2> QED
    BY <2>2 DEF ItemKey, PlaceOf
<1>5. \A i \in DOMAIN g.queue : g.queue[i].id \in StartedBy(g) <=> i \in S
  BY <1>1, <1>2 DEF StartedBy, Distinct
<1>6. after \in Calls
  BY <1>1, StartsIs
<1>7. \A r \in Requests :
              /\ r \in StartedBy(g) => /\ calls[r].pc = "queued" /\ after[r].pc = "admitted"
                                       /\ after[r].selected = calls[r].selected
                                       /\ after[r].capability = calls[r].capability
              /\ r \notin StartedBy(g) => after[r] = calls[r]
  BY <1>1, StartsIs
<1> DEFINE ids(A) == {g.queue[i].id : i \in A}
<1>8. ASSUME NEW A \in SUBSET S
      PROVE  IsFiniteSet(ids(A)) /\ Cardinality(ids(A)) = Cardinality(A)
  <2> DEFINE f == [i \in A |-> g.queue[i].id]
  <2>1. IsFiniteSet(A)
    BY <1>2, IncrementIs, FS_Subset
  <2>2. f \in Injection(A, Requests)
    BY <1>1, <1>2, <1>3 DEF Distinct, Injection, IsInjective
  <2>3. ids(A) = {f[x] : x \in A}
    OBVIOUS
  <2> HIDE DEF f
  <2>4. IsFiniteSet({f[x] : x \in A}) /\ Cardinality({f[x] : x \in A}) = Cardinality(A)
    BY <2>1, <2>2, ImageCardinality
  <2> HIDE DEF ids
  <2> QED
    BY <2>3, <2>4
<1>9. \A r : r \in StartedBy(g) <=> \E i \in S : r = g.queue[i].id
  BY DEF StartedBy
<1> HIDE DEF S, after, d
<1>10. ASSUME NEW place \in Places
       PROVE  Increment(g, S).providerActive[place] = Cardinality(Within(after, place))
  <2> DEFINE A == AtPlace(g, S, place)
  <2>1. A \in SUBSET S
    BY DEF AtPlace
  <2>2. Within(after, place) = Within(calls, place) \cup ids(A)
    <3>1. ASSUME NEW r \in Within(after, place) PROVE r \in Within(calls, place) \cup ids(A)
      BY <1>2, <1>4, <1>7, <1>9, <3>1 DEF Within, PlaceOf, AtPlace
    <3>2. ASSUME NEW r \in Within(calls, place) PROVE r \in Within(after, place)
      BY <1>7, <3>2 DEF Within, InGate
    <3>3. ASSUME NEW i \in A PROVE g.queue[i].id \in Within(after, place)
      BY <1>2, <1>3, <1>4, <1>5, <1>7 DEF Within, PlaceOf, AtPlace, InGate
    <3> QED
      BY <3>1, <3>2, <3>3
  <2>3. Within(calls, place) \cap ids(A) = {}
    BY <1>2, <1>3, <2>1 DEF Within, InGate
  <2>4. IsFiniteSet(Within(calls, place))
    BY RoutingAssumption, FS_Subset DEF Within
  <2> HIDE DEF A, ids
  <2>5. IsFiniteSet(ids(A)) /\ Cardinality(ids(A)) = Cardinality(A)
    BY <1>8, <2>1
  <2>6. Cardinality(Within(after, place)) = Cardinality(Within(calls, place)) + Cardinality(A)
    BY <2>2, <2>3, <2>4, <2>5, DisjointUnion
  <2>7. Increment(g, S).providerActive[place] = g.providerActive[place] + Cardinality(A)
    BY <1>2, IncrementIs DEF A
  <2> QED
    BY <1>1, <2>6, <2>7 DEF CountersAgreeWith
<1>11. ASSUME NEW c \in Capabilities
       PROVE  Increment(g, S).capabilityActive[c] = Cardinality(Doing(after, c))
  <2> DEFINE A == AtCapability(g, S, c)
  <2>1. A \in SUBSET S
    BY DEF AtCapability
  <2>2. Doing(after, c) = Doing(calls, c) \cup ids(A)
    <3>1. ASSUME NEW r \in Doing(after, c) PROVE r \in Doing(calls, c) \cup ids(A)
      BY <1>2, <1>4, <1>7, <1>9, <3>1 DEF Doing, AtCapability
    <3>2. ASSUME NEW r \in Doing(calls, c) PROVE r \in Doing(after, c)
      BY <1>7, <3>2 DEF Doing, InGate
    <3>3. ASSUME NEW i \in A PROVE g.queue[i].id \in Doing(after, c)
      BY <1>2, <1>3, <1>4, <1>5, <1>7 DEF Doing, AtCapability, InGate
    <3> QED
      BY <3>1, <3>2, <3>3
  <2>3. Doing(calls, c) \cap ids(A) = {}
    BY <1>2, <1>3, <2>1 DEF Doing, InGate
  <2>4. IsFiniteSet(Doing(calls, c))
    BY RoutingAssumption, FS_Subset DEF Doing
  <2> HIDE DEF A, ids
  <2>5. IsFiniteSet(ids(A)) /\ Cardinality(ids(A)) = Cardinality(A)
    BY <1>8, <2>1
  <2>6. Cardinality(Doing(after, c)) = Cardinality(Doing(calls, c)) + Cardinality(A)
    BY <2>2, <2>3, <2>4, <2>5, DisjointUnion
  <2>7. Increment(g, S).capabilityActive[c] = g.capabilityActive[c] + Cardinality(A)
    BY <1>2, IncrementIs DEF A
  <2> QED
    BY <1>1, <2>6, <2>7 DEF CountersAgreeWith
<1>12. CountersAgreeWith(d, after)
  <2>1. /\ \A place \in Places : d.providerActive[place] <= ProviderLimit[place]
        /\ \A c \in Capabilities : d.capabilityActive[c] <= CapabilityLimit[c]
    BY <1>1, DrainedWithin DEF CountersAgreeWith, d
  <2>2. /\ d.providerActive = Increment(g, S).providerActive
        /\ d.capabilityActive = Increment(g, S).capabilityActive
    BY DrainedIs DEF d, S
  <2> QED
    BY <1>10, <1>11, <2>1, <2>2 DEF CountersAgreeWith
<1>13. QueueAgreesWith(d, after)
  <2>1. Distinct(d)
    BY <1>1, DrainedIs DEF d
  <2>2. /\ \A k \in DOMAIN d.queue : \E i \in DOMAIN g.queue \ S : d.queue[k] = g.queue[i]
        /\ \A i \in DOMAIN g.queue \ S : \E k \in DOMAIN d.queue : d.queue[k] = g.queue[i]
    BY DrainedIs DEF d, S
  <2>3. ASSUME NEW k \in DOMAIN d.queue
        PROVE  after[d.queue[k].id].pc = "queued" /\ d.queue[k] = ItemOf(after, d.queue[k].id)
    <3>1. PICK i \in DOMAIN g.queue \ S : d.queue[k] = g.queue[i]
      BY <2>2
    <3>2. after[g.queue[i].id] = calls[g.queue[i].id]
      BY <1>3, <1>5, <1>7, <3>1
    <3> QED
      BY <1>3, <3>1, <3>2 DEF ItemOf
  <2>4. ASSUME NEW r \in Requests, after[r].pc = "queued"
        PROVE  \E k \in DOMAIN d.queue : d.queue[k].id = r
    <3>1. r \notin StartedBy(g) /\ calls[r].pc = "queued"
      BY <1>7, <2>4
    <3>2. PICK i \in DOMAIN g.queue : g.queue[i].id = r
      BY <1>1, <3>1 DEF QueueAgreesWith
    <3> QED
      BY <1>5, <2>2, <3>1, <3>2
  <2> QED
    BY <2>1, <2>3, <2>4 DEF QueueAgreesWith
<1> QED
  BY <1>12, <1>13 DEF GateAgrees, d, after

\* A step that lets no call in or out and queues none leaves the gate in agreement.
LEMMA GateStays ==
  ASSUME NEW g \in Gate, NEW calls \in Calls, NEW after \in Calls, GateAgrees(g, calls),
         \A r \in Requests :
           \/ after[r] = calls[r]
           \/ {calls[r].pc, after[r].pc} \cap (InGate \cup {"queued"}) = {}
           \/ /\ {calls[r].pc, after[r].pc} \subseteq InGate
              /\ after[r].selected = calls[r].selected /\ after[r].capability = calls[r].capability
  PROVE  GateAgrees(g, after)
<1>1. \A place \in Places : Within(after, place) = Within(calls, place)
  BY DEF Within, PlaceOf, InGate
<1>2. \A c \in Capabilities : Doing(after, c) = Doing(calls, c)
  BY DEF Doing, InGate
<1>3. \A r \in Requests : calls[r].pc = "queued" \/ after[r].pc = "queued" => after[r] = calls[r]
  BY DEF InGate
<1>4. ASSUME NEW i \in DOMAIN g.queue
      PROVE  after[g.queue[i].id].pc = "queued" /\ g.queue[i] = ItemOf(after, g.queue[i].id)
  <2>1. g.queue[i] \in Item
    BY DEF Gate
  <2>2. g.queue[i].id \in Requests
    BY <2>1 DEF Item
  <2>3. calls[g.queue[i].id].pc = "queued" /\ g.queue[i] = ItemOf(calls, g.queue[i].id)
    BY DEF GateAgrees, QueueAgreesWith
  <2> QED
    BY <1>3, <2>2, <2>3 DEF ItemOf
<1> QED
  BY <1>1, <1>2, <1>3, <1>4 DEF GateAgrees, CountersAgreeWith, QueueAgreesWith

\* A call joins the queue.
LEMMA QueuedAgrees ==
  ASSUME NEW g \in Gate, NEW calls \in Calls, GateAgrees(g, calls),
         NEW r \in Requests, calls[r].pc = "prompt",
         NEW after \in Calls, after[r].pc = "queued", after[r].selected = calls[r].selected,
         after[r].capability = calls[r].capability,
         \A q \in Requests \ {r} : after[q] = calls[q]
  PROVE  LET h == Queued(g, ItemOf(calls, r)) IN h \in Gate /\ GateAgrees(h, after)
<1> DEFINE item == ItemOf(calls, r)
           h == Queued(g, item)
           n == Len(g.queue)
<1>1. item = ItemOf(after, r) /\ item \in Item /\ item.id = r
  <2>1. calls[r] \in Call /\ Chosen(calls[r])
    BY DEF Calls
  <2>2. calls[r].capability \in Capabilities /\ calls[r].selected \in Seq(AiProviders)
        /\ calls[r].selected # << >>
    BY <2>1 DEF Call, Chosen, Begun
  <2>3. Head(calls[r].selected) \in AiProviders
    BY <2>2
  <2> QED
    BY <2>2, <2>3 DEF ItemOf, Item
<1> HIDE DEF item
<1>2. g.queue \in Seq(Item) /\ n \in Nat /\ DOMAIN g.queue = 1..n
  BY DEF Gate
<1>3. /\ Append(g.queue, item) \in Seq(Item) /\ Len(Append(g.queue, item)) = n + 1
      /\ \A i \in 1..n : Append(g.queue, item)[i] = g.queue[i]
      /\ Append(g.queue, item)[n + 1] = item
  BY <1>1, <1>2
<1>4. h = [g EXCEPT !.queue = Append(g.queue, item)]
  BY DEF Queued
<1>5. /\ h \in Gate /\ h.queue = Append(g.queue, item) /\ h.providerActive = g.providerActive
      /\ h.capabilityActive = g.capabilityActive
  <2> HIDE DEF h
  <2> QED
    BY <1>3, <1>4 DEF Gate
<1> HIDE DEF h
<1>6. DOMAIN h.queue = 1..(n + 1) /\ h.queue[n + 1] = item /\ \A i \in 1..n : h.queue[i] = g.queue[i]
  BY <1>2, <1>3, <1>5
<1>7. CountersAgreeWith(h, after)
  <2>1. \A place \in Places : Within(after, place) = Within(calls, place)
    BY DEF Within, InGate
  <2>2. \A c \in Capabilities : Doing(after, c) = Doing(calls, c)
    BY DEF Doing, InGate
  <2> QED
    BY <1>5, <2>1, <2>2 DEF GateAgrees, CountersAgreeWith
<1> HIDE DEF n
<1>8. \A i \in 1..n : /\ calls[g.queue[i].id].pc = "queued" /\ g.queue[i] = ItemOf(calls, g.queue[i].id)
                      /\ g.queue[i].id # r
  BY <1>2 DEF GateAgrees, QueueAgreesWith
<1>9. ASSUME NEW i \in 1..n PROVE g.queue[i].id \in Requests \ {r}
  <2>1. g.queue[i] \in Item
    BY <1>2
  <2> QED
    BY <1>8, <2>1 DEF Item
<1>10. \A i \in DOMAIN h.queue : i \in 1..n \/ i = n + 1
  BY <1>2, <1>6
<1>11. ASSUME NEW i \in DOMAIN h.queue
       PROVE  after[h.queue[i].id].pc = "queued" /\ h.queue[i] = ItemOf(after, h.queue[i].id)
  <2>1. CASE i = n + 1
    BY <1>1, <1>6, <2>1
  <2>2. CASE i \in 1..n
    BY <1>6, <1>8, <1>9, <2>2 DEF ItemOf
  <2> QED
    BY <1>10, <2>1, <2>2
<1>12. ASSUME NEW i \in DOMAIN h.queue, NEW j \in DOMAIN h.queue, h.queue[i].id = h.queue[j].id
       PROVE  i = j
  <2>1. CASE i \in 1..n /\ j \in 1..n
    BY <1>2, <1>6, <1>12, <2>1 DEF GateAgrees, QueueAgreesWith, Distinct
  <2>2. CASE i = n + 1 /\ j = n + 1
    BY <2>2
  <2>3. CASE i \in 1..n /\ j = n + 1
    BY <1>1, <1>6, <1>8, <1>12, <2>3
  <2>4. CASE i = n + 1 /\ j \in 1..n
    BY <1>1, <1>6, <1>8, <1>12, <2>4
  <2> QED
    BY <1>10, <2>1, <2>2, <2>3, <2>4
<1>13. ASSUME NEW q \in Requests, after[q].pc = "queued"
       PROVE  \E i \in DOMAIN h.queue : h.queue[i].id = q
  <2>1. CASE q = r
    <3>1. n + 1 \in DOMAIN h.queue
      BY <1>2, <1>6
    <3> QED
      BY <1>1, <1>6, <2>1, <3>1
  <2>2. CASE q # r
    <3>1. PICK i \in 1..n : g.queue[i].id = q
      BY <1>2, <1>13, <2>2 DEF GateAgrees, QueueAgreesWith
    <3>2. i \in DOMAIN h.queue
      BY <1>2, <1>6, <3>1
    <3> QED
      BY <1>6, <3>1, <3>2
  <2> QED
    BY <2>1, <2>2
<1> QED
  BY <1>5, <1>7, <1>11, <1>12, <1>13 DEF GateAgrees, QueueAgreesWith, Distinct, h, item

\* A call leaves: its two slots are given back.
LEMMA LeftAgrees ==
  ASSUME NEW g \in Gate, NEW calls \in Calls, GateAgrees(g, calls),
         NEW r \in Requests, calls[r].pc \in InGate,
         NEW after \in Calls, after[r].pc \notin InGate \cup {"queued"},
         \A q \in Requests \ {r} : after[q] = calls[q]
  PROVE  LET h == Decrement(g, Head(calls[r].selected), calls[r].capability)
         IN  h \in Gate /\ GateAgrees(h, after)
<1> DEFINE place == PlaceOf(calls[r])
           cap == calls[r].capability
           h == Decrement(g, Head(calls[r].selected), cap)
           pa == [g.providerActive EXCEPT ![place] = OneLess(g.providerActive[place])]
           ca == [g.capabilityActive EXCEPT ![cap] = OneLess(g.capabilityActive[cap])]
<1>1. place \in Places /\ cap \in Capabilities
  <2>1. calls[r] \in Call /\ Chosen(calls[r])
    BY DEF Calls
  <2>2. calls[r].capability \in Capabilities /\ calls[r].selected \in Seq(AiProviders)
        /\ calls[r].selected # << >>
    BY <2>1 DEF Call, Chosen, Begun
  <2>3. Head(calls[r].selected) \in AiProviders
    BY <2>2
  <2> QED
    BY <2>2, <2>3 DEF PlaceOf, ProviderKey, Places
<1>2. h = [g EXCEPT !.providerActive = pa, !.capabilityActive = ca]
  BY DEF Decrement, Gate, PlaceOf
<1> HIDE DEF place, cap, h
<1>3. /\ g.providerActive \in [Places -> Nat] /\ g.capabilityActive \in [Capabilities -> Nat]
  BY DEF Gate
<1>4. /\ pa \in [Places -> Nat] /\ ca \in [Capabilities -> Nat]
      /\ \A p \in Places : pa[p] = IF p = place THEN OneLess(g.providerActive[p]) ELSE g.providerActive[p]
      /\ \A c \in Capabilities :
           ca[c] = IF c = cap THEN OneLess(g.capabilityActive[c]) ELSE g.capabilityActive[c]
  BY <1>1, <1>3 DEF OneLess
<1> HIDE DEF pa, ca
<1>5. h \in Gate /\ h.queue = g.queue /\ h.providerActive = pa /\ h.capabilityActive = ca
  BY <1>2, <1>4 DEF Gate
<1>6. ASSUME NEW p \in Places
      PROVE  pa[p] = Cardinality(Within(after, p)) /\ pa[p] <= ProviderLimit[p]
  <2>1. /\ g.providerActive[p] = Cardinality(Within(calls, p)) /\ g.providerActive[p] <= ProviderLimit[p]
        /\ IsFiniteSet(Within(calls, p)) /\ g.providerActive[p] \in Nat
    BY <1>3, RoutingAssumption, FS_Subset DEF Within, GateAgrees, CountersAgreeWith
  <2>2. Within(after, p) = Within(calls, p) \ {r}
    BY DEF Within, InGate
  <2>3. r \in Within(calls, p) <=> p = place
    BY DEF Within, place
  <2>4. Cardinality(Within(after, p)) = IF p = place THEN g.providerActive[p] - 1 ELSE g.providerActive[p]
    <3>1. Cardinality(Within(calls, p) \ {r}) = IF r \in Within(calls, p) THEN Cardinality(Within(calls, p)) - 1 ELSE Cardinality(Within(calls, p))
      BY <2>1, FS_RemoveElement
    <3> QED
      BY <2>1, <2>2, <2>3, <3>1
  <2>5. p = place => g.providerActive[p] # 0
    BY <2>1, <2>3, FS_EmptySet
  <2>6. ProviderLimit[p] \in Nat
    BY LimitsAssumption DEF Places
  <2> QED
    BY <1>4, <2>1, <2>4, <2>5, <2>6 DEF OneLess
<1>7. ASSUME NEW c \in Capabilities
      PROVE  ca[c] = Cardinality(Doing(after, c)) /\ ca[c] <= CapabilityLimit[c]
  <2>1. /\ g.capabilityActive[c] = Cardinality(Doing(calls, c)) /\ g.capabilityActive[c] <= CapabilityLimit[c]
        /\ IsFiniteSet(Doing(calls, c)) /\ g.capabilityActive[c] \in Nat
    BY <1>3, RoutingAssumption, FS_Subset DEF Doing, GateAgrees, CountersAgreeWith
  <2>2. Doing(after, c) = Doing(calls, c) \ {r}
    BY DEF Doing, InGate
  <2>3. r \in Doing(calls, c) <=> c = cap
    BY DEF Doing, cap
  <2>4. Cardinality(Doing(after, c)) = IF c = cap THEN g.capabilityActive[c] - 1 ELSE g.capabilityActive[c]
    <3>1. Cardinality(Doing(calls, c) \ {r}) = IF r \in Doing(calls, c) THEN Cardinality(Doing(calls, c)) - 1 ELSE Cardinality(Doing(calls, c))
      BY <2>1, FS_RemoveElement
    <3> QED
      BY <2>1, <2>2, <2>3, <3>1
  <2>5. c = cap => g.capabilityActive[c] # 0
    BY <2>1, <2>3, FS_EmptySet
  <2>6. CapabilityLimit[c] \in Nat
    BY LimitsAssumption
  <2> QED
    BY <1>4, <2>1, <2>4, <2>5, <2>6 DEF OneLess
<1>8. CountersAgreeWith(h, after)
  BY <1>5, <1>6, <1>7 DEF CountersAgreeWith
<1>9. QueueAgreesWith(h, after)
  <2>1. QueueAgreesWith(g, calls) /\ calls[r].pc # "queued" /\ after[r].pc # "queued"
    BY DEF GateAgrees, InGate
  <2>2. ASSUME NEW i \in DOMAIN g.queue PROVE after[g.queue[i].id] = calls[g.queue[i].id]
    <3>1. g.queue[i] \in Item
      BY DEF Gate
    <3> QED
      BY <2>1, <3>1 DEF Item, QueueAgreesWith
  <2> QED
    BY <1>5, <2>1, <2>2 DEF QueueAgreesWith, Distinct, ItemOf
<1> QED
  BY <1>5, <1>8, <1>9 DEF GateAgrees, h, cap

-----------------------------------------------------------------------------
(* The credentials.                                                        *)

PooledProviders == {p \in AiProviders : Pooled(p)}
PoolKey == [disabled : BOOLEAN, cooling : BOOLEAN, inFlight : Nat]
Pool == [Keys -> PoolKey]
Pools == [PooledProviders -> Pool]
Probes == {NoProbe} \cup [provider : PooledProviders, key : Keys]

HoldersIn(calls, p, key) ==
  {r \in Requests : calls[r].pc = "call" /\ Head(calls[r].selected) = p /\ calls[r].key = key}

KeysHeld(calls) ==
  \A r \in Requests : calls[r].pc = "call" /\ Pooled(Head(calls[r].selected)) => calls[r].key \in Keys

LeasesAgreeWith(ps, calls, pr) ==
  \A p \in PooledProviders, key \in Keys :
    ps[p][key].inFlight =
      Cardinality(HoldersIn(calls, p, key)) + (IF pr = [provider |-> p, key |-> key] THEN 1 ELSE 0)

\* What each operation on a pool does to the counts.
LEMMA PoolMoves ==
  ASSUME NEW pool \in Pool, NEW key \in Keys
  PROVE  /\ Acquired(pool, key) \in Pool
         /\ \A k \in Keys : Acquired(pool, key)[k].inFlight =
              IF k = key THEN pool[k].inFlight + 1 ELSE pool[k].inFlight
         /\ Released(pool, key) \in Pool
         /\ \A k \in Keys : Released(pool, key)[k].inFlight =
              IF k = key THEN OneLess(pool[k].inFlight) ELSE pool[k].inFlight
         /\ \A code : /\ Failed(pool, key, code) \in Pool
                      /\ \A k \in Keys : Failed(pool, key, code)[k].inFlight =
                           IF k = key THEN OneLess(pool[k].inFlight) ELSE pool[k].inFlight
         /\ CooledDown(pool, key) \in Pool
         /\ \A k \in Keys : CooledDown(pool, key)[k].inFlight = pool[k].inFlight
<1>1. pool[key] \in PoolKey /\ \A k \in Keys : pool[k] \in PoolKey
  BY DEF Pool
<1>2. /\ Acquired(pool, key) \in Pool
      /\ \A k \in Keys : Acquired(pool, key)[k].inFlight =
           IF k = key THEN pool[k].inFlight + 1 ELSE pool[k].inFlight
  BY <1>1 DEF Acquired, Pool, PoolKey
<1>3. /\ Released(pool, key) \in Pool
      /\ \A k \in Keys : Released(pool, key)[k].inFlight =
           IF k = key THEN OneLess(pool[k].inFlight) ELSE pool[k].inFlight
  BY <1>1 DEF Released, Pool, PoolKey, OneLess
<1>4. ASSUME NEW code
      PROVE  /\ Failed(pool, key, code) \in Pool
             /\ \A k \in Keys : Failed(pool, key, code)[k].inFlight =
                  IF k = key THEN OneLess(pool[k].inFlight) ELSE pool[k].inFlight
  <2> DEFINE mid == Released(pool, key)
             dis == code \in {"AUTHENTICATION_FAILED", "BILLING_REQUIRED", "INVALID_MODEL"}
             cool == code \in {"RATE_LIMITED", "UNAVAILABLE", "TIMEOUT"}
  <2>1. mid \in Pool /\ dis \in BOOLEAN /\ cool \in BOOLEAN
    BY <1>3
  <2> DEFINE one == [mid EXCEPT ![key].disabled = @ \/ dis]
             two == [one EXCEPT ![key].cooling = @ \/ cool]
  <2>2. Failed(pool, key, code) = two
    BY DEF Failed
  <2> HIDE DEF mid, dis, cool
  <2>3. mid[key] \in PoolKey /\ (mid[key].disabled \/ dis) \in BOOLEAN
    BY <2>1 DEF Pool, PoolKey
  <2>4. one \in Pool /\ \A k \in Keys : one[k].inFlight = mid[k].inFlight
    BY <2>1, <2>3 DEF Pool, PoolKey
  <2> HIDE DEF one
  <2>5. one[key] \in PoolKey /\ (one[key].cooling \/ cool) \in BOOLEAN
    BY <2>1, <2>4 DEF Pool, PoolKey
  <2>6. two \in Pool /\ \A k \in Keys : two[k].inFlight = one[k].inFlight
    BY <2>4, <2>5 DEF Pool, PoolKey
  <2> HIDE DEF two
  <2> QED
    BY <1>3, <2>2, <2>4, <2>6 DEF mid
<1>5. /\ CooledDown(pool, key) \in Pool
      /\ \A k \in Keys : CooledDown(pool, key)[k].inFlight = pool[k].inFlight
  BY <1>1 DEF CooledDown, Pool, PoolKey
<1> QED
  BY <1>2, <1>3, <1>4, <1>5

LEMMA HoldersAreFinite ==
  ASSUME NEW calls, NEW p, NEW key
  PROVE  IsFiniteSet(HoldersIn(calls, p, key)) /\ Cardinality(HoldersIn(calls, p, key)) \in Nat
<1>1. HoldersIn(calls, p, key) \in SUBSET Requests
  BY DEF HoldersIn
<1> QED
  BY <1>1, RoutingAssumption, FS_Subset, FS_CardinalityType

\* Calls that begin or end no use of a key leave the leases in agreement.
LEMMA LeasesStay ==
  ASSUME NEW ps, NEW calls \in Calls, NEW pr, KeysHeld(calls), LeasesAgreeWith(ps, calls, pr),
         NEW after \in Calls,
         \A r \in Requests : after[r] = calls[r] \/ (calls[r].pc # "call" /\ after[r].pc # "call"),
         NEW qs, \A p \in PooledProviders, key \in Keys : qs[p][key].inFlight = ps[p][key].inFlight
  PROVE  KeysHeld(after) /\ LeasesAgreeWith(qs, after, pr)
<1>1. \A p \in PooledProviders, key \in Keys : HoldersIn(after, p, key) = HoldersIn(calls, p, key)
  BY DEF HoldersIn
<1>2. KeysHeld(after)
  BY DEF KeysHeld
<1> QED
  BY <1>1, <1>2 DEF LeasesAgreeWith

\* A call takes a key.
LEMMA LeaseTaken ==
  ASSUME NEW ps \in Pools, NEW calls \in Calls, NEW pr, KeysHeld(calls), LeasesAgreeWith(ps, calls, pr),
         NEW r \in Requests, calls[r].pc # "call", NEW after \in Calls, after[r].pc = "call",
         NEW p \in PooledProviders, Head(after[r].selected) = p,
         NEW key \in Keys, after[r].key = key,
         \A q \in Requests \ {r} : after[q] = calls[q]
  PROVE  LET qs == [ps EXCEPT ![p] = Acquired(@, key)]
         IN  qs \in Pools /\ KeysHeld(after) /\ LeasesAgreeWith(qs, after, pr)
<1> DEFINE pool == Acquired(ps[p], key)
           qs == [ps EXCEPT ![p] = pool]
<1>1. ps[p] \in Pool /\ pool \in Pool
      /\ \A k \in Keys : pool[k].inFlight = IF k = key THEN ps[p][k].inFlight + 1 ELSE ps[p][k].inFlight
  BY PoolMoves DEF Pools
<1> HIDE DEF pool
<1>2. qs \in Pools /\ \A o \in PooledProviders : qs[o] = IF o = p THEN pool ELSE ps[o]
  BY <1>1 DEF Pools
<1>3. KeysHeld(after)
  BY DEF KeysHeld
<1>4. ASSUME NEW o \in PooledProviders, NEW k \in Keys
      PROVE  qs[o][k].inFlight =
               Cardinality(HoldersIn(after, o, k)) + (IF pr = [provider |-> o, key |-> k] THEN 1 ELSE 0)
  <2> DEFINE was == HoldersIn(calls, o, k)
             bonus == IF pr = [provider |-> o, key |-> k] THEN 1 ELSE 0
  <2>1. ps[o][k].inFlight = Cardinality(was) + bonus /\ bonus \in Nat
    BY DEF LeasesAgreeWith
  <2>2. IsFiniteSet(was) /\ Cardinality(was) \in Nat
    BY HoldersAreFinite
  <2> HIDE DEF bonus
  <2>3. CASE o = p /\ k = key
    <3>1. HoldersIn(after, o, k) = was \cup {r} /\ r \notin was
      BY <2>3 DEF HoldersIn
    <3> HIDE DEF was
    <3>2. Cardinality(was \cup {r}) = Cardinality(was) + 1
      BY <2>2, <3>1, FS_AddElement
    <3> QED
      BY <1>1, <1>2, <2>1, <2>2, <2>3, <3>1, <3>2 DEF bonus
  <2>4. CASE ~(o = p /\ k = key)
    <3>1. HoldersIn(after, o, k) = was
      BY <2>4 DEF HoldersIn
    <3>2. qs[o][k].inFlight = ps[o][k].inFlight
      BY <1>1, <1>2, <2>4
    <3> QED
      BY <2>1, <3>1, <3>2 DEF bonus
  <2> QED
    BY <2>3, <2>4
<1> HIDE DEF qs
<1>5. LeasesAgreeWith(qs, after, pr)
  BY <1>4 DEF LeasesAgreeWith
<1> QED
  BY <1>2, <1>3, <1>5 DEF qs, pool

\* A call ends its use of a key, and may let others in that do not yet use one.
LEMMA LeaseEnded ==
  ASSUME NEW ps \in Pools, NEW calls \in Calls, NEW pr, KeysHeld(calls), LeasesAgreeWith(ps, calls, pr),
         NEW r \in Requests, calls[r].pc = "call", NEW after \in Calls, after[r].pc # "call",
         NEW p \in PooledProviders, Head(calls[r].selected) = p,
         NEW pool \in Pool,
         \A k \in Keys : pool[k].inFlight =
           IF k = calls[r].key THEN OneLess(ps[p][k].inFlight) ELSE ps[p][k].inFlight,
         \A q \in Requests \ {r} : after[q] = calls[q] \/ (calls[q].pc # "call" /\ after[q].pc # "call")
  PROVE  LET qs == [ps EXCEPT ![p] = pool]
         IN  qs \in Pools /\ KeysHeld(after) /\ LeasesAgreeWith(qs, after, pr)
<1> DEFINE qs == [ps EXCEPT ![p] = pool]
           key == calls[r].key
<1>1. qs \in Pools /\ \A o \in PooledProviders : qs[o] = IF o = p THEN pool ELSE ps[o]
  BY DEF Pools
<1>2. KeysHeld(after)
  BY DEF KeysHeld
<1>3. ASSUME NEW o \in PooledProviders, NEW k \in Keys
      PROVE  qs[o][k].inFlight =
               Cardinality(HoldersIn(after, o, k)) + (IF pr = [provider |-> o, key |-> k] THEN 1 ELSE 0)
  <2> DEFINE was == HoldersIn(calls, o, k)
             bonus == IF pr = [provider |-> o, key |-> k] THEN 1 ELSE 0
  <2>1. ps[o][k].inFlight = Cardinality(was) + bonus /\ bonus \in Nat
    BY DEF LeasesAgreeWith
  <2>2. IsFiniteSet(was) /\ Cardinality(was) \in Nat
    BY HoldersAreFinite
  <2> HIDE DEF bonus
  <2>3. CASE o = p /\ k = key
    <3>1. HoldersIn(after, o, k) = was \ {r} /\ r \in was
      BY <2>3 DEF HoldersIn
    <3> HIDE DEF was
    <3>2. Cardinality(was \ {r}) = Cardinality(was) - 1
      BY <2>2, <3>1, FS_RemoveElement
    <3>3. Cardinality(was) # 0
      BY <2>2, <3>1, FS_EmptySet
    <3>4. qs[o][k].inFlight = OneLess(ps[o][k].inFlight)
      BY <1>1, <2>3
    <3> QED
      BY <2>1, <2>2, <3>1, <3>2, <3>3, <3>4 DEF bonus, OneLess
  <2>4. CASE ~(o = p /\ k = key)
    <3>1. HoldersIn(after, o, k) = was
      BY <2>4 DEF HoldersIn
    <3>2. qs[o][k].inFlight = ps[o][k].inFlight
      BY <1>1, <2>4
    <3> QED
      BY <2>1, <3>1, <3>2 DEF bonus
  <2> QED
    BY <2>3, <2>4
<1> HIDE DEF qs
<1>4. LeasesAgreeWith(qs, after, pr)
  BY <1>3 DEF LeasesAgreeWith
<1> QED
  BY <1>1, <1>2, <1>4 DEF qs

\* A provider without a pool has no key to count.
LEMMA NothingLeased ==
  ASSUME NEW ps, NEW calls \in Calls, NEW pr, KeysHeld(calls), LeasesAgreeWith(ps, calls, pr),
         NEW r \in Requests, ~Pooled(Head(calls[r].selected)),
         NEW after \in Calls, after[r].pc = "call" => after[r].selected = calls[r].selected,
         \A q \in Requests \ {r} : after[q] = calls[q] \/ (calls[q].pc # "call" /\ after[q].pc # "call")
  PROVE  KeysHeld(after) /\ LeasesAgreeWith(ps, after, pr)
<1>1. \A p \in PooledProviders, key \in Keys : HoldersIn(after, p, key) = HoldersIn(calls, p, key)
  BY DEF HoldersIn, PooledProviders
<1>2. KeysHeld(after)
  BY DEF KeysHeld
<1> QED
  BY <1>1, <1>2 DEF LeasesAgreeWith

-----------------------------------------------------------------------------
(* The router's invariant.                                                 *)

Budget == [cached : [Paid -> Nat], pending : {"none", "asked", "read"}, value : [Paid -> Nat]]

BudgetKept == snapshot \in Budget /\ spent \in [Paid -> Nat]
GateKept == gate \in Gate /\ GateAgrees(gate, req) /\ NoneStartable
LeasesKept ==
  pools \in Pools /\ probe \in Probes /\ KeysHeld(req) /\ LeasesAgreeWith(pools, req, probe)

RouterInv == req \in Calls /\ BudgetKept /\ GateKept /\ LeasesKept

\* The records a call may become.
LEMMA NewCalls ==
  /\ Over \in Call /\ Chosen(Over) /\ Asked(Over) /\ Over.pc = "over"
  /\ Fresh \in Call /\ Chosen(Fresh) /\ Asked(Fresh) /\ Fresh.pc = "idle"
  /\ \A c \in Capabilities, s \in Seq(AiProviders) :
       s # << >> =>
         LET call == [Fresh EXCEPT !.pc = "prompt", !.capability = c, !.selected = s]
         IN  call \in Call /\ Chosen(call) /\ Asked(call) /\ call.pc = "prompt"
<1>1. NoSnapshot \in [Paid -> Nat]
  BY RoutingAssumption DEF NoSnapshot
<1>3. Fresh \in Call /\ Fresh.pc = "idle"
  BY <1>1 DEF Fresh, Call, Modes
<1>4. Over \in Call /\ Over.pc = "over"
  BY <1>3 DEF Over, Call
<1>5. ASSUME NEW c \in Capabilities, NEW s \in Seq(AiProviders), s # << >>
      PROVE  LET call == [Fresh EXCEPT !.pc = "prompt", !.capability = c, !.selected = s]
             IN  /\ call \in Call /\ call.pc = "prompt" /\ call.capability = c /\ call.selected = s
  BY <1>3 DEF Call, Begun
<1>6. \A call : (call.pc = "idle" \/ call.pc = "over") => Chosen(call) /\ Asked(call)
  BY DEF Chosen, Asked, Asking, Begun, InGate, RecordPcs
<1>7. \A call : /\ call.pc = "prompt" /\ call.capability \in Capabilities /\ call.selected # << >>
                => Chosen(call) /\ Asked(call)
  BY DEF Chosen, Asked, Asking
<1>9. ASSUME NEW c \in Capabilities, NEW s \in Seq(AiProviders), s # << >>
      PROVE  LET call == [Fresh EXCEPT !.pc = "prompt", !.capability = c, !.selected = s]
             IN  call \in Call /\ Chosen(call) /\ Asked(call) /\ call.pc = "prompt"
  <2> DEFINE call == [Fresh EXCEPT !.pc = "prompt", !.capability = c, !.selected = s]
  <2>1. call \in Call /\ call.pc = "prompt" /\ call.capability = c /\ call.selected = s
    BY <1>5, <1>9
  <2> HIDE DEF call
  <2>2. Chosen(call) /\ Asked(call)
    BY <1>7, <1>9, <2>1
  <2> QED
    BY <2>1, <2>2 DEF call
<1>10. /\ Over \in Call /\ Chosen(Over) /\ Asked(Over) /\ Over.pc = "over"
       /\ Fresh \in Call /\ Chosen(Fresh) /\ Asked(Fresh) /\ Fresh.pc = "idle"
  BY <1>3, <1>4, <1>6
<1> QED
  BY <1>9, <1>10

\* A step of calls that are not at the gate.
LEMMA QuietStep ==
  ASSUME RouterInv, req' \in Calls, BudgetKept', gate' = gate, probe' = probe, pools' \in Pools,
         \A p \in PooledProviders, key \in Keys : pools'[p][key].inFlight = pools[p][key].inFlight,
         \A r \in Requests : \/ req'[r] = req[r]
                             \/ {req[r].pc, req'[r].pc} \cap (InGate \cup {"queued"}) = {}
  PROVE  RouterInv'
<1>1. GateKept'
  <2>1. GateAgrees(gate, req')
    BY GateStays DEF RouterInv, GateKept
  <2> QED
    BY <2>1 DEF RouterInv, GateKept, NoneStartable
<1>2. LeasesKept'
  <2>1. \A r \in Requests : req'[r] = req[r] \/ (req[r].pc # "call" /\ req'[r].pc # "call")
    BY DEF InGate
  <2>2. KeysHeld(req') /\ LeasesAgreeWith(pools', req', probe)
    BY <2>1, LeasesStay DEF RouterInv, LeasesKept
  <2> QED
    BY <2>2 DEF RouterInv, LeasesKept
<1> QED
  BY <1>1, <1>2 DEF RouterInv

\* One call becomes another.
LEMMA OneCall ==
  ASSUME req \in Calls, NEW r \in Requests, NEW next \in Call, Chosen(next), Asked(next)
  PROVE  /\ [req EXCEPT ![r] = next] \in Calls
         /\ [req EXCEPT ![r] = next][r] = next
         /\ \A q \in Requests \ {r} : [req EXCEPT ![r] = next][q] = req[q]
BY DEF Calls

\* drain() after the calls have become `calls` and the gate `g`.
LEMMA DrainStep ==
  ASSUME NEW g \in Gate, NEW calls \in Calls, GateAgrees(g, calls),
         gate' = Drained(g), req' = Starts(calls, g)
  PROVE  /\ req' \in Calls /\ GateKept'
         /\ \A q \in Requests : \/ req'[q] = calls[q]
                                \/ calls[q].pc = "queued" /\ req'[q].pc = "admitted"
<1>1. GateAgrees(gate', req')
  BY DrainAgrees
<1>2. gate' \in Gate
  BY DrainedIs
<1>3. NoneStartable'
  BY DrainedStops DEF NoneStartable
<1>4. QueueAgreesWith(g, calls)
  BY DEF GateAgrees
<1> QED
  BY <1>1, <1>2, <1>3, <1>4, StartsIs DEF GateKept

\* The call of an adapter settles.
LEMMA LeaveStep ==
  ASSUME RouterInv, NEW r \in Requests, req[r].pc \in InGate, NEW next \in Call, Chosen(next),
         Asked(next), next.pc \notin InGate \cup {"queued"}, Leave(r, next)
  PROVE  /\ req' \in Calls /\ GateKept' /\ req'[r] = next
         /\ \A q \in Requests \ {r} : \/ req'[q] = req[q]
                                      \/ req[q].pc = "queued" /\ req'[q].pc = "admitted"
<1> DEFINE calls == [req EXCEPT ![r] = next]
           g == Decrement(gate, Provider(r), req[r].capability)
<1>1. /\ calls \in Calls /\ calls[r] = next /\ \A q \in Requests \ {r} : calls[q] = req[q]
  BY OneCall DEF RouterInv
<1>2. gate' = Drained(g) /\ req' = Starts(calls, g)
  BY DEF Leave
<1> HIDE DEF calls
<1>3. g \in Gate /\ GateAgrees(g, calls)
  BY <1>1, LeftAgrees DEF RouterInv, GateKept, Provider
<1> HIDE DEF g
<1>4. /\ req' \in Calls /\ GateKept'
      /\ \A q \in Requests : req'[q] = calls[q] \/ (calls[q].pc = "queued" /\ req'[q].pc = "admitted")
  BY <1>2, <1>3, <1>1, DrainStep
<1> QED
  BY <1>1, <1>4

LEMMA CandidatesAre ==
  ASSUME NEW c \in Capabilities, NEW enabled, NEW preferred, NEW mode, NEW value
  PROVE  Candidates(c, enabled, preferred, mode, value) \in Seq(AiProviders)
<1> DEFINE Names == {"GROQ", "VERTEX", "BEDROCK", "GEMINI", "OPENROUTER"}
           route == Those(Route(c), enabled)
           ordered == PreferredFirst(route, preferred)
           all == IF mode \in {"CONSERVE", "CRITICAL"} THEN FreeFirst(ordered) ELSE ordered
           eligible == {p \in AiProviders : /\ ModelFor(p, c, Models)
                                            /\ Allows(value, p, c)
                                            /\ CircuitAllows(p, c)}
<1>1. c \in GeminiCapabilities
  BY RoutingAssumption
<1>2. Route(c) \in Seq(Names)
  <2>1. Route(c) \in
          {<<"GROQ", "VERTEX", "BEDROCK", "GEMINI", "OPENROUTER">>,
           <<"GROQ", "GEMINI", "VERTEX", "BEDROCK", "OPENROUTER">>,
           <<"VERTEX", "BEDROCK", "GEMINI", "OPENROUTER">>,
           <<"VERTEX", "BEDROCK", "OPENROUTER", "GEMINI">>,
           <<"VERTEX", "BEDROCK", "GROQ", "GEMINI", "OPENROUTER">>,
           <<"VERTEX", "GEMINI", "OPENROUTER">>, <<"VERTEX", "GEMINI">>, <<"GEMINI">>,
           <<"GROQ", "GEMINI", "VERTEX", "OPENROUTER">>}
    BY <1>1 DEF Route, GeminiCapabilities, VertexCapabilities, Plain, Reasoned, MediaAnalysis
  <2>2. /\ <<"GROQ", "VERTEX", "BEDROCK", "GEMINI", "OPENROUTER">> \in Seq(Names)
        /\ <<"GROQ", "GEMINI", "VERTEX", "BEDROCK", "OPENROUTER">> \in Seq(Names)
        /\ <<"VERTEX", "BEDROCK", "GEMINI", "OPENROUTER">> \in Seq(Names)
        /\ <<"VERTEX", "BEDROCK", "OPENROUTER", "GEMINI">> \in Seq(Names)
        /\ <<"VERTEX", "BEDROCK", "GROQ", "GEMINI", "OPENROUTER">> \in Seq(Names)
        /\ <<"VERTEX", "GEMINI", "OPENROUTER">> \in Seq(Names)
        /\ <<"VERTEX", "GEMINI">> \in Seq(Names)
        /\ <<"GEMINI">> \in Seq(Names)
        /\ <<"GROQ", "GEMINI", "VERTEX", "OPENROUTER">> \in Seq(Names)
    OBVIOUS
  <2> HIDE DEF Names
  <2> QED
    BY <2>1, <2>2
<1> HIDE DEF Names
<1>3. route \in Seq(Names)
  BY <1>2, Filtered
<1> HIDE DEF route
<1>4. ordered \in Seq(Names)
  BY SMTT(60), <1>3, Filtered DEF PreferredFirst
<1> HIDE DEF ordered
<1>5. all \in Seq(Names)
  BY SMTT(60), <1>4, Filtered DEF FreeFirst
<1> HIDE DEF all
<1>6. eligible \subseteq AiProviders
  OBVIOUS
<1> HIDE DEF eligible
<1>7. Those(all, eligible) \in Seq(eligible)
  BY <1>5, Filtered
<1>8. Those(all, eligible) \in Seq(AiProviders)
  BY <1>6, <1>7
<1> USE DEF all, ordered, route, eligible
<1> QED
  BY <1>8 DEF Candidates

AtGate == InGate \cup {"queued"}

\* One call that is not at the gate becomes another that is not.
LEMMA QuietCall ==
  ASSUME RouterInv, NEW r \in Requests, NEW next \in Call, Chosen(next), Asked(next),
         req' = [req EXCEPT ![r] = next], req[r].pc \notin AtGate, next.pc \notin AtGate,
         gate' = gate, probe' = probe, pools' = pools, BudgetKept'
  PROVE  RouterInv'
<1> DEFINE calls == [req EXCEPT ![r] = next]
<1>1. /\ calls \in Calls /\ calls[r] = next /\ \A q \in Requests \ {r} : calls[q] = req[q]
  <2>1. req \in Calls
    BY DEF RouterInv
  <2>2. calls \in Calls
    BY <2>1, OneCall
  <2>3. calls[r] = next
    BY <2>1, OneCall
  <2>4. \A q \in Requests \ {r} : calls[q] = req[q]
    BY <2>1, OneCall
  <2> QED
    BY <2>2, <2>3, <2>4
<1> HIDE DEF calls
<1>2. req' = calls
  BY DEF calls
<1>3. ASSUME NEW q \in Requests
      PROVE  \/ req'[q] = req[q]
             \/ {req[q].pc, req'[q].pc} \cap (InGate \cup {"queued"}) = {}
  BY <1>1, <1>2 DEF AtGate
<1> QED
  BY <1>1, <1>2, <1>3, QuietStep DEF RouterInv, LeasesKept

LEMMA GivenIs ==
  ASSUME req \in Calls, NEW r \in Requests, NEW value \in [Paid -> Nat],
         req[r].pc \in {"mode", "mode_wait", "allows", "allows_wait"}
  PROVE  /\ Given(r, value) \in Call /\ Chosen(Given(r, value)) /\ Asked(Given(r, value))
         /\ Given(r, value).pc \in {"allows", "select"}
<1> DEFINE call == req[r]
           next == Given(r, value)
<1>1. call \in Call /\ call.capability \in Capabilities
  BY DEF Calls, Asked, Asking
<1>2. Mode(value) \in Modes
  BY DEF Mode, ModeFor, Modes
<1>3. /\ next \in Call /\ next.pc \in {"allows", "select"} /\ next.capability = call.capability
  BY <1>1, <1>2 DEF Given, Call, Asking
<1> HIDE DEF next, call
<1> QED
  BY <1>1, <1>3 DEF Chosen, Asked, Begun, InGate, RecordPcs, next

LEMMA OnwardsIs ==
  ASSUME req \in Calls, NEW r \in Requests, req[r].pc \in Begun
  PROVE  /\ Onwards(r) \in Call /\ Chosen(Onwards(r)) /\ Asked(Onwards(r))
         /\ Onwards(r).pc \in {"over", "prompt"}
<1> DEFINE call == req[r]
           s == Tail(call.selected)
<1>1. /\ call \in Call /\ call.capability \in Capabilities
      /\ call.selected \in Seq(AiProviders) /\ call.selected # << >>
  BY DEF Calls, Chosen, Call
<1>2. CASE Len(call.selected) = 1
  BY <1>2, NewCalls DEF Onwards
<1>3. CASE Len(call.selected) # 1
  <2> DEFINE c == call.capability
  <2>1. s \in Seq(AiProviders) /\ s # << >>
    <3> HIDE DEF call
    <3>1. Len(call.selected) \in Nat /\ Len(call.selected) # 0
      BY <1>1
    <3>2. s \in Seq(AiProviders) /\ Len(s) = Len(call.selected) - 1
      BY <1>1
    <3>3. Len(s) # 0
      BY <1>3, <3>1, <3>2
    <3> HIDE DEF s
    <3>4. Len(<< >>) = 0
      OBVIOUS
    <3>5. s # << >>
      BY <3>3, <3>4
    <3> QED
      BY <3>2, <3>5
  <2>2. Onwards(r) = [Fresh EXCEPT !.pc = "prompt", !.capability = c, !.selected = s]
    BY <1>3 DEF Onwards
  <2>3. c \in Capabilities
    BY <1>1
  <2> HIDE DEF c, s
  <2> DEFINE next == [Fresh EXCEPT !.pc = "prompt", !.capability = c, !.selected = s]
  <2>4. next \in Call /\ Chosen(next) /\ Asked(next) /\ next.pc = "prompt"
    BY <2>1, <2>3, NewCalls
  <2> HIDE DEF next
  <2>5. Onwards(r) = next
    BY <2>2 DEF next
  <2> QED
    BY <2>4, <2>5
<1> QED
  BY <1>2, <1>3

LEMMA RecordingIs ==
  ASSUME req \in Calls, NEW r \in Requests, req[r].pc \in Begun
  PROVE  /\ Recording(r) \in Call /\ Chosen(Recording(r)) /\ Asked(Recording(r))
         /\ Recording(r).pc = "record_failed"
<1> DEFINE call == req[r]
           next == Recording(r)
<1>1. /\ call \in Call /\ call.capability \in Capabilities
      /\ call.selected \in Seq(AiProviders) /\ call.selected # << >>
  BY DEF Calls, Chosen, Call
<1>2. /\ next \in Call /\ next.pc = "record_failed" /\ next.capability = call.capability
      /\ next.selected = call.selected
  BY <1>1 DEF Recording, Call, Begun, RecordPcs, NoKey
<1> HIDE DEF next, call
<1> QED
  BY <1>1, <1>2 DEF Chosen, Asked, Asking, next

-----------------------------------------------------------------------------
(* The steps before and after the gate.                                    *)

LEMMA AskKeeps ==
  ASSUME RouterInv, NEW r \in Requests, NEW c \in Capabilities, Ask(r, c)
  PROVE  RouterInv'
<1> DEFINE to == IF BudgetEnabled THEN "mode" ELSE "select"
           next == [req[r] EXCEPT !.pc = to, !.capability = c]
<1>1. req[r] \in Call /\ req \in [Requests -> Call] /\ req[r].pc = "idle"
  BY DEF RouterInv, Calls, Ask
<1>2. req' = [req EXCEPT ![r] = next]
  BY <1>1 DEF Ask
<1>3. /\ next \in Call /\ next.pc \in Asking /\ next.capability = c
  BY <1>1 DEF Call, Asking
<1> HIDE DEF next
<1>4. Chosen(next) /\ Asked(next) /\ next.pc \notin AtGate
  BY <1>3 DEF Chosen, Asked, Asking, Begun, InGate, RecordPcs, AtGate
<1>5. req[r].pc \notin AtGate /\ BudgetKept' /\ gate' = gate /\ probe' = probe /\ pools' = pools
  BY <1>1 DEF AtGate, InGate, Ask, BudgetKept, RouterInv
<1> QED
  BY <1>2, <1>3, <1>4, <1>5, QuietCall

LEMMA SelectKeeps ==
  ASSUME RouterInv, NEW r \in Requests, Select(r)
  PROVE  RouterInv'
<1> DEFINE c == req[r].capability
<1>1. req \in Calls /\ req[r].pc = "select" /\ c \in Capabilities
  BY DEF RouterInv, Calls, Asked, Asking, Select
<1>2. PICK enabled \in Runtime, preferred \in AiProviders \cup {"none"},
             most \in 1..MaxProviderCallsFor(c) :
        LET all == Candidates(c, enabled, preferred, req[r].mode, req[r].value)
        IN  req' = [req EXCEPT ![r] =
                     IF all = << >> THEN Over
                     ELSE [Fresh EXCEPT !.pc = "prompt", !.capability = c,
                             !.selected = Shortened(all, most)]]
  BY DEF Select
<1> DEFINE all == Candidates(c, enabled, preferred, req[r].mode, req[r].value)
           s == Shortened(all, most)
           next == IF all = << >> THEN Over
                   ELSE [Fresh EXCEPT !.pc = "prompt", !.capability = c, !.selected = s]
<1>3. all \in Seq(AiProviders)
  BY <1>1, CandidatesAre
<1>4. most \in 1..3
  <2>1. MaxProviderCallsFor(c) \in 1..3
    BY DEF MaxProviderCallsFor
  <2> HIDE DEF c
  <2> QED BY <1>2, <2>1
<1>5. req' = [req EXCEPT ![r] = next]
  BY <1>2
<1> HIDE DEF all, c
<1>6. all # << >> => s \in Seq(AiProviders) /\ s # << >>
  <2> SUFFICES ASSUME all # << >> PROVE s \in Seq(AiProviders) /\ s # << >>
    OBVIOUS
  <2> DEFINE m == IF Len(all) < most THEN Len(all) ELSE most
  <2>1. m \in 1..Len(all) /\ m \in Nat
    BY <1>3, <1>4
  <2>2. s = SubSeq(all, 1, m)
    BY DEF Shortened
  <2> HIDE DEF m
  <2>3. s \in Seq(AiProviders) /\ Len(s) = m
    BY <1>3, <2>1, <2>2
  <2> QED
    BY <2>1, <2>3
<1> HIDE DEF s
<1>7. /\ next \in Call /\ Chosen(next) /\ Asked(next) /\ next.pc \in {"over", "prompt"}
  <2>1. CASE all = << >>
    BY <2>1, NewCalls
  <2>2. CASE all # << >>
    BY <1>1, <1>6, <2>2, NewCalls
  <2> QED
    BY <2>1, <2>2
<1> HIDE DEF next
<1>8. req[r].pc \notin AtGate /\ next.pc \notin AtGate
  BY <1>1, <1>7 DEF AtGate, InGate
<1>9. BudgetKept' /\ gate' = gate /\ probe' = probe /\ pools' = pools
  BY DEF Select, BudgetKept, RouterInv
<1> QED
  BY <1>5, <1>7, <1>8, <1>9, QuietCall

LEMMA BudgetKeeps ==
  ASSUME RouterInv,
         \/ \E r \in Requests : ReadCached(r) \/ AskSnapshot(r)
         \/ Aggregate \/ SnapshotArrives \/ SnapshotFails \/ CacheExpires
  PROVE  RouterInv'
<1>1. req \in Calls /\ req \in [Requests -> Call] /\ snapshot \in Budget /\ spent \in [Paid -> Nat]
  BY DEF RouterInv, Calls, BudgetKept
<1>2. NoSnapshot \in [Paid -> Nat]
  BY RoutingAssumption DEF NoSnapshot
<1>3. ASSUME NEW r \in Requests, ReadCached(r) PROVE RouterInv'
  <2>1. snapshot.cached \in [Paid -> Nat] /\ req[r].pc \in {"mode", "mode_wait", "allows", "allows_wait"}
    BY <1>1, <1>3 DEF ReadCached, Budget
  <2> DEFINE next == Given(r, snapshot.cached)
  <2>2. /\ next \in Call /\ Chosen(next) /\ Asked(next) /\ next.pc \in {"allows", "select"}
    BY <1>1, <2>1, GivenIs
  <2>3. req' = [req EXCEPT ![r] = next] /\ gate' = gate /\ probe' = probe /\ pools' = pools /\ BudgetKept'
    BY <1>3 DEF ReadCached, BudgetKept, RouterInv
  <2> HIDE DEF next
  <2>4. req[r].pc \notin AtGate /\ next.pc \notin AtGate
    BY <2>1, <2>2 DEF AtGate, InGate
  <2> QED
    BY <2>2, <2>3, <2>4, QuietCall
<1>4. ASSUME NEW r \in Requests, AskSnapshot(r) PROVE RouterInv'
  <2> DEFINE to == IF req[r].pc = "mode" THEN "mode_wait" ELSE "allows_wait"
             next == [req[r] EXCEPT !.pc = to]
  <2>1. req[r] \in Call /\ req[r].pc \in {"mode", "allows"} /\ req[r].capability \in Capabilities
    BY <1>1, <1>4 DEF AskSnapshot, Calls, Asked, Asking
  <2>2. req' = [req EXCEPT ![r] = next] /\ gate' = gate /\ probe' = probe /\ pools' = pools
    BY <1>1, <1>4 DEF AskSnapshot
  <2>3. next \in Call /\ next.pc \in Waits /\ next.capability = req[r].capability
    BY <2>1 DEF Call, Asking, Waits
  <2>4. BudgetKept'
    BY <1>1, <1>4 DEF AskSnapshot, BudgetKept, Budget
  <2> HIDE DEF next
  <2>5. Chosen(next) /\ Asked(next) /\ req[r].pc \notin AtGate /\ next.pc \notin AtGate
    BY <2>1, <2>3 DEF Chosen, Asked, Asking, Waits, Begun, InGate, RecordPcs, AtGate
  <2> QED
    BY <2>2, <2>3, <2>4, <2>5, QuietCall
<1>5. ASSUME \/ /\ req' = [r \in Requests |->
                             IF req[r].pc \in Waits THEN Given(r, snapshot.value) ELSE req[r]]
             \/ req' = [r \in Requests |-> IF req[r].pc \in Waits THEN Over ELSE req[r]]
             \/ req' = req,
             BudgetKept', gate' = gate, probe' = probe, pools' = pools
      PROVE  RouterInv'
  <2>1. ASSUME NEW r \in Requests
        PROVE  /\ req'[r] \in Call /\ Chosen(req'[r]) /\ Asked(req'[r])
               /\ \/ req'[r] = req[r]
                  \/ {req[r].pc, req'[r].pc} \cap (InGate \cup {"queued"}) = {}
    <3>1. req[r] \in Call /\ Chosen(req[r]) /\ Asked(req[r])
      BY <1>1 DEF Calls
    <3>2. CASE req'[r] = req[r]
      BY <3>1, <3>2
    <3>3. CASE req[r].pc \in Waits /\ req'[r] = Given(r, snapshot.value)
      <4>1. snapshot.value \in [Paid -> Nat]
        BY <1>1 DEF Budget
      <4>2. /\ req'[r] \in Call /\ Chosen(req'[r]) /\ Asked(req'[r])
            /\ req'[r].pc \in {"allows", "select"}
        BY <1>1, <3>3, <4>1, GivenIs DEF Waits
      <4> QED
        BY <3>3, <4>2 DEF Waits, InGate
    <3>4. CASE req[r].pc \in Waits /\ req'[r] = Over
      <4>1. Over \in Call /\ Chosen(Over) /\ Asked(Over) /\ Over.pc = "over"
        BY NewCalls
      <4> QED
        BY <3>4, <4>1 DEF Waits, InGate
    <3> QED
      BY <1>5, <3>2, <3>3, <3>4
  <2>2. req' \in Calls
    <3>1. req' \in [Requests -> Call]
      BY <1>1, <1>5, <2>1
    <3> QED
      BY <2>1, <3>1 DEF Calls
  <2> QED
    BY <1>5, <2>1, <2>2, QuietStep DEF RouterInv, LeasesKept
<1>6. ASSUME Aggregate PROVE RouterInv'
  <2>1. BudgetKept'
    BY <1>1, <1>6 DEF Aggregate, BudgetKept, Budget
  <2> QED
    BY <1>5, <1>6, <2>1 DEF Aggregate
<1>7. ASSUME SnapshotArrives PROVE RouterInv'
  <2>1. BudgetKept'
    BY <1>1, <1>2, <1>7 DEF SnapshotArrives, BudgetKept, Budget
  <2> QED
    BY <1>5, <1>7, <2>1 DEF SnapshotArrives
<1>8. ASSUME SnapshotFails PROVE RouterInv'
  <2>1. BudgetKept'
    BY <1>1, <1>2, <1>8 DEF SnapshotFails, Forgotten, BudgetKept, Budget
  <2> QED
    BY <1>5, <1>8, <2>1 DEF SnapshotFails
<1>9. ASSUME CacheExpires PROVE RouterInv'
  <2>1. BudgetKept'
    BY <1>1, <1>2, <1>9 DEF CacheExpires, BudgetKept, Budget
  <2> QED
    BY <1>5, <1>9, <2>1 DEF CacheExpires
<1> QED
  BY <1>3, <1>4, <1>6, <1>7, <1>8, <1>9

-----------------------------------------------------------------------------
(* The steps at the gate.                                                  *)

\* What a call at the gate or inside knows.
LEMMA AtWork ==
  ASSUME RouterInv, NEW r \in Requests, req[r].pc \in Begun
  PROVE  /\ req[r] \in Call /\ req[r].capability \in Capabilities
         /\ req[r].selected \in Seq(AiProviders) /\ req[r].selected # << >>
         /\ Provider(r) \in AiProviders
         /\ Pooled(Provider(r)) => Provider(r) \in PooledProviders /\ pools[Provider(r)] \in Pool
<1>1. req[r] \in Call /\ Chosen(req[r])
  BY DEF RouterInv, Calls
<1>2. /\ req[r].capability \in Capabilities /\ req[r].selected \in Seq(AiProviders)
      /\ req[r].selected # << >>
  BY <1>1 DEF Call, Chosen
<1>3. Provider(r) \in AiProviders
  BY <1>2 DEF Provider
<1> QED
  BY <1>1, <1>2, <1>3 DEF PooledProviders, RouterInv, LeasesKept, Pools

LEMMA PromptFoundKeeps ==
  ASSUME RouterInv, NEW r \in Requests, PromptFound(r)
  PROVE  /\ RouterInv'
         /\ LET calls == [req EXCEPT ![r].pc = "queued"]
                g == Queued(gate, ItemOf(req, r))
            IN  /\ g \in Gate /\ calls \in Calls /\ GateAgrees(g, calls)
                /\ gate' = Drained(g) /\ req' = Starts(calls, g)
<1> DEFINE calls == [req EXCEPT ![r].pc = "queued"]
           next == [req[r] EXCEPT !.pc = "queued"]
           g == Queued(gate, ItemOf(req, r))
<1>1. req[r].pc = "prompt" /\ req \in Calls /\ req \in [Requests -> Call]
  BY DEF PromptFound, RouterInv, Calls
<1>2. req[r] \in Call /\ req[r].capability \in Capabilities /\ req[r].selected # << >>
  BY <1>1, AtWork DEF Begun
<1>3. calls = [req EXCEPT ![r] = next]
  BY <1>1
<1>4. /\ next \in Call /\ next.pc = "queued" /\ next.capability = req[r].capability
      /\ next.selected = req[r].selected
  BY <1>2 DEF Call, Begun
<1> HIDE DEF next, calls
<1>5. Chosen(next) /\ Asked(next)
  BY <1>2, <1>4 DEF Chosen, Asked, Asking
<1>6. calls \in Calls /\ calls[r] = next /\ \A q \in Requests \ {r} : calls[q] = req[q]
  BY <1>1, <1>3, <1>4, <1>5, OneCall
<1>7. g \in Gate /\ GateAgrees(g, calls)
  BY <1>1, <1>4, <1>6, QueuedAgrees DEF RouterInv, GateKept
<1>8. gate' = Drained(g) /\ req' = Starts(calls, g)
  BY DEF PromptFound, ItemOf, Provider, calls
<1> HIDE DEF g
<1>9. /\ req' \in Calls /\ GateKept'
      /\ \A q \in Requests : req'[q] = calls[q] \/ (calls[q].pc = "queued" /\ req'[q].pc = "admitted")
  BY <1>6, <1>7, <1>8, DrainStep
<1>10. \A q \in Requests : req'[q] = req[q] \/ (req[q].pc # "call" /\ req'[q].pc # "call")
  BY <1>1, <1>4, <1>6, <1>9
<1>11. pools' = pools /\ probe' = probe /\ BudgetKept'
  BY DEF PromptFound, RouterInv, BudgetKept
<1>12. LeasesKept'
  <2>1. KeysHeld(req') /\ LeasesAgreeWith(pools, req', probe)
    BY <1>1, <1>9, <1>10, LeasesStay DEF RouterInv, LeasesKept
  <2> QED
    BY <1>11, <2>1 DEF RouterInv, LeasesKept
<1> QED
  BY <1>6, <1>7, <1>8, <1>9, <1>11, <1>12 DEF RouterInv, calls, g

\* A settled call gives back its slots, and its key if it had one.
LEMMA LeaveKeeps ==
  ASSUME RouterInv, NEW r \in Requests, NEW next \in Call, Chosen(next), Asked(next),
         next.pc \notin AtGate, Leave(r, next), BudgetKept', probe' = probe,
         \/ req[r].pc = "admitted" /\ pools' = pools
         \/ req[r].pc = "call" /\ ~Pooled(Provider(r)) /\ pools' = pools
         \/ /\ req[r].pc = "call" /\ Pooled(Provider(r))
            /\ \E pool \in Pool :
                 /\ pools' = [pools EXCEPT ![Provider(r)] = pool]
                 /\ \A k \in Keys : pool[k].inFlight =
                      IF k = req[r].key THEN OneLess(pools[Provider(r)][k].inFlight)
                      ELSE pools[Provider(r)][k].inFlight
  PROVE  RouterInv'
<1>1. req \in Calls /\ pools \in Pools /\ KeysHeld(req) /\ LeasesAgreeWith(pools, req, probe)
  BY DEF RouterInv, LeasesKept
<1>2. /\ req' \in Calls /\ GateKept' /\ req'[r] = next
      /\ \A q \in Requests \ {r} : \/ req'[q] = req[q]
                                   \/ req[q].pc = "queued" /\ req'[q].pc = "admitted"
  BY LeaveStep DEF InGate, AtGate
<1>3. req'[r].pc # "call"
  BY <1>2 DEF AtGate, InGate
<1>4. pools' \in Pools /\ KeysHeld(req') /\ LeasesAgreeWith(pools', req', probe)
  <2>1. CASE req[r].pc = "admitted" /\ pools' = pools
    <3>1. \A q \in Requests : req'[q] = req[q] \/ (req[q].pc # "call" /\ req'[q].pc # "call")
      BY <1>2, <1>3, <2>1
    <3> QED
      BY <1>1, <1>2, <2>1, <3>1, LeasesStay
  <2>2. CASE req[r].pc = "call" /\ ~Pooled(Provider(r)) /\ pools' = pools
    <3>1. KeysHeld(req') /\ LeasesAgreeWith(pools, req', probe)
      BY <1>1, <1>2, <1>3, <2>2, NothingLeased DEF Provider
    <3> QED
      BY <1>1, <2>2, <3>1
  <2>3. ASSUME req[r].pc = "call", Pooled(Provider(r)), NEW pool \in Pool,
               pools' = [pools EXCEPT ![Provider(r)] = pool],
               \A k \in Keys : pool[k].inFlight =
                      IF k = req[r].key THEN OneLess(pools[Provider(r)][k].inFlight)
                      ELSE pools[Provider(r)][k].inFlight
        PROVE  pools' \in Pools /\ KeysHeld(req') /\ LeasesAgreeWith(pools', req', probe)
    <3>1. PICK p \in PooledProviders : p = Provider(r)
      BY <2>3, AtWork DEF Begun, InGate
    <3> DEFINE qs == [pools EXCEPT ![p] = pool]
    <3>2. Head(req[r].selected) = p
      BY <3>1 DEF Provider
    <3>3. \A k \in Keys : pool[k].inFlight =
            IF k = req[r].key THEN OneLess(pools[p][k].inFlight) ELSE pools[p][k].inFlight
      BY <2>3, <3>1
    <3>4. qs \in Pools /\ KeysHeld(req') /\ LeasesAgreeWith(qs, req', probe)
      <4>1. \A q \in Requests \ {r} : req'[q] = req[q] \/ (req[q].pc # "call" /\ req'[q].pc # "call")
        BY <1>2
      <4>2. req[r].pc = "call"
        BY <2>3
      <4> QED
        BY <1>1, <1>2, <1>3, <3>2, <3>3, <4>1, <4>2, LeaseEnded
    <3>5. pools' = qs
      BY <2>3, <3>1
    <3> QED
      BY <3>4, <3>5
  <2> QED
    BY <2>1, <2>2, <2>3
<1>5. probe \in Probes
  BY DEF RouterInv, LeasesKept
<1> QED
  BY <1>2, <1>4, <1>5 DEF RouterInv, LeasesKept

LEMMA AcquireKeeps ==
  ASSUME RouterInv, NEW r \in Requests, Acquire(r)
  PROVE  RouterInv'
<1>1. req \in Calls /\ pools \in Pools /\ KeysHeld(req) /\ LeasesAgreeWith(pools, req, probe)
      /\ req \in [Requests -> Call] /\ req[r].pc = "admitted"
  BY DEF RouterInv, LeasesKept, Calls, Acquire
<1>2. /\ req[r] \in Call /\ req[r].capability \in Capabilities /\ req[r].selected # << >>
      /\ Pooled(Provider(r)) => Provider(r) \in PooledProviders
  BY <1>1, AtWork DEF Begun, InGate
<1>3. gate' = gate /\ probe' = probe /\ BudgetKept' /\ probe \in Probes
  BY DEF Acquire, RouterInv, BudgetKept, LeasesKept
\* The gate sees no difference between a call that is admitted and one that runs.
<1>4. ASSUME NEW next \in Call, next.pc = "call", next.capability = req[r].capability,
             next.selected = req[r].selected
      PROVE  LET after == [req EXCEPT ![r] = next]
             IN  /\ after \in Calls /\ after[r] = next
                 /\ \A q \in Requests \ {r} : after[q] = req[q]
                 /\ GateAgrees(gate, after)
  <2> DEFINE after == [req EXCEPT ![r] = next]
  <2>1. Chosen(next) /\ Asked(next)
    BY <1>2, <1>4 DEF Chosen, Asked, Asking
  <2>2. after \in Calls /\ after[r] = next /\ \A q \in Requests \ {r} : after[q] = req[q]
    BY <1>1, <2>1, OneCall
  <2> HIDE DEF after
  <2>3. ASSUME NEW q \in Requests
        PROVE  \/ after[q] = req[q]
               \/ /\ {req[q].pc, after[q].pc} \subseteq InGate
                  /\ after[q].selected = req[q].selected /\ after[q].capability = req[q].capability
    BY <1>1, <1>4, <2>2 DEF InGate
  <2>4. GateAgrees(gate, after)
    BY <2>2, <2>3, GateStays DEF RouterInv, GateKept
  <2> QED
    BY <2>2, <2>4 DEF after
<1>5. ASSUME req' \in Calls, GateAgrees(gate, req'), pools' \in Pools, KeysHeld(req'),
             LeasesAgreeWith(pools', req', probe)
      PROVE  RouterInv'
  BY <1>3, <1>5 DEF RouterInv, GateKept, LeasesKept, NoneStartable
<1>6. CASE Pooled(Provider(r))
  <2>1. PICK key \in Acquirable(pools[Provider(r)]) :
          /\ req[r].turns > 0
          /\ pools' = [pools EXCEPT ![Provider(r)] = Acquired(@, key)]
          /\ req' = [req EXCEPT ![r].pc = "call", ![r].key = key, ![r].turns = @ - 1]
    BY <1>6 DEF Acquire
  <2>2. PICK p \in PooledProviders : p = Provider(r)
    BY <1>2, <1>6
  <2> DEFINE left == req[r].turns - 1
             next == [req[r] EXCEPT !.pc = "call", !.key = key, !.turns = left]
             qs == [pools EXCEPT ![p] = Acquired(@, key)]
  <2>3. key \in Keys
    BY DEF Acquirable, Healthy
  <2>4. req' = [req EXCEPT ![r] = next]
    BY <1>1, <2>1
  <2>5. /\ next \in Call /\ next.pc = "call" /\ next.capability = req[r].capability
        /\ next.selected = req[r].selected /\ next.key = key
    <3>1. left \in Nat
      BY <1>2, <2>1 DEF Call
    <3> HIDE DEF left
    <3> QED
      BY <1>2, <2>3, <3>1 DEF Call, Begun, InGate
  <2> HIDE DEF next
  <2>6. /\ req' \in Calls /\ req'[r] = next /\ \A q \in Requests \ {r} : req'[q] = req[q]
        /\ GateAgrees(gate, req')
    BY <1>4, <2>4, <2>5
  <2>7. req'[r].pc = "call" /\ Head(req'[r].selected) = p /\ req'[r].key = key
    BY <2>2, <2>5, <2>6 DEF Provider
  <2>8. qs \in Pools /\ KeysHeld(req') /\ LeasesAgreeWith(qs, req', probe)
    BY <1>1, <2>3, <2>6, <2>7, LeaseTaken
  <2>9. pools' = qs
    BY <2>1, <2>2
  <2> QED
    BY <1>5, <2>6, <2>8, <2>9
<1>7. CASE ~Pooled(Provider(r))
  <2> DEFINE next == [req[r] EXCEPT !.pc = "call"]
  <2>1. req' = [req EXCEPT ![r] = next] /\ pools' = pools
    BY <1>1, <1>7 DEF Acquire
  <2>2. /\ next \in Call /\ next.pc = "call" /\ next.capability = req[r].capability
        /\ next.selected = req[r].selected
    BY <1>2 DEF Call, Begun, InGate
  <2> HIDE DEF next
  <2>3. /\ req' \in Calls /\ req'[r] = next /\ \A q \in Requests \ {r} : req'[q] = req[q]
        /\ GateAgrees(gate, req')
    BY <1>4, <2>1, <2>2
  <2>4. ~Pooled(Head(req[r].selected)) /\ req'[r].selected = req[r].selected
    BY <1>7, <2>2, <2>3 DEF Provider
  <2>5. KeysHeld(req') /\ LeasesAgreeWith(pools, req', probe)
    BY <1>1, <2>3, <2>4, NothingLeased
  <2> QED
    BY <1>1, <1>5, <2>1, <2>3, <2>5
<1> QED
  BY <1>6, <1>7

\* What a use of a key that ends leaves of its pool, however it ends.
LEMMA KeyReturns ==
  ASSUME RouterInv, NEW r \in Requests, req[r].pc = "call", Pooled(Provider(r)), NEW code
  PROVE  LET counted(pool) ==
               /\ pool \in Pool
               /\ \A k \in Keys : pool[k].inFlight =
                    IF k = req[r].key THEN OneLess(pools[Provider(r)][k].inFlight)
                    ELSE pools[Provider(r)][k].inFlight
         IN  /\ counted(KeyAfterFailure(pools[Provider(r)], req[r].key, code))
             /\ counted(Released(pools[Provider(r)], req[r].key))
<1>1. pools[Provider(r)] \in Pool
  BY AtWork DEF Begun, InGate
<1>2. req[r].key \in Keys
  BY DEF RouterInv, LeasesKept, KeysHeld, Provider
<1>3. PICK pool \in Pool : pool = pools[Provider(r)]
  BY <1>1
<1>4. PICK key \in Keys : key = req[r].key
  BY <1>2
<1> DEFINE counted(other) ==
             /\ other \in Pool
             /\ \A k \in Keys : other[k].inFlight =
                  IF k = key THEN OneLess(pool[k].inFlight) ELSE pool[k].inFlight
<1>5. counted(Released(pool, key)) /\ counted(Failed(pool, key, code))
  BY PoolMoves
<1>6. counted(KeyAfterFailure(pool, key, code))
  BY <1>5 DEF KeyAfterFailure
<1> QED
  BY <1>3, <1>4, <1>5, <1>6

LEMMA NoCredentialKeeps ==
  ASSUME RouterInv, NEW r \in Requests, NoCredential(r)
  PROVE  RouterInv'
<1>1. req \in Calls /\ req[r].pc = "admitted"
  BY DEF RouterInv, NoCredential
<1>2. /\ Recording(r) \in Call /\ Chosen(Recording(r)) /\ Asked(Recording(r))
      /\ Recording(r).pc = "record_failed"
  BY <1>1, RecordingIs DEF Begun, InGate
<1>3. Leave(r, Recording(r)) /\ pools' = pools /\ probe' = probe /\ BudgetKept'
  BY DEF NoCredential, Fails, RouterInv, BudgetKept
<1> QED
  BY <1>1, <1>2, <1>3, LeaveKeeps DEF AtGate, InGate

\* A credential of its own has failed: the call stays inside and takes another one.
LEMMA RotationKeeps ==
  ASSUME RouterInv, NEW r \in Requests, NEW code, CallFails(r, code),
         Pooled(Provider(r)), IsKeyRecoverableProviderFailure(code)
  PROVE  /\ RouterInv' /\ gate' = gate /\ req'[r].code = code
         /\ \A q \in Requests \ {r} : req'[q] = req[q]
<1>1. req \in Calls /\ pools \in Pools /\ KeysHeld(req) /\ LeasesAgreeWith(pools, req, probe)
      /\ req \in [Requests -> Call] /\ req[r].pc = "call"
  BY DEF RouterInv, LeasesKept, Calls, CallFails
<1>2. /\ req[r] \in Call /\ req[r].capability \in Capabilities /\ req[r].selected # << >>
      /\ Provider(r) \in PooledProviders
  BY <1>1, AtWork DEF Begun, InGate
<1>3. gate' = gate /\ probe' = probe /\ BudgetKept' /\ probe \in Probes
  BY DEF CallFails, RouterInv, BudgetKept, LeasesKept
<1> DEFINE next == [req[r] EXCEPT !.pc = "admitted", !.key = NoKey, !.code = code]
           after == [req EXCEPT ![r] = next]
<1>4. code \in Failures
  BY DEF CallFails
<1>5. req' = after
  BY <1>1 DEF CallFails
<1>6. /\ next \in Call /\ next.pc = "admitted" /\ next.capability = req[r].capability
      /\ next.selected = req[r].selected /\ next.code = code
  BY <1>2, <1>4 DEF Call, Begun, InGate
<1> HIDE DEF next
<1>7. Chosen(next) /\ Asked(next)
  BY <1>2, <1>6 DEF Chosen, Asked, Asking
<1>8. after \in Calls /\ after[r] = next /\ \A q \in Requests \ {r} : after[q] = req[q]
  BY <1>1, <1>6, <1>7, OneCall
<1> HIDE DEF after
<1>9. ASSUME NEW q \in Requests
      PROVE  \/ after[q] = req[q]
             \/ /\ {req[q].pc, after[q].pc} \subseteq InGate
                /\ after[q].selected = req[q].selected /\ after[q].capability = req[q].capability
  BY <1>1, <1>6, <1>8 DEF InGate
<1>10. GateAgrees(gate, after)
  BY <1>8, <1>9, GateStays DEF RouterInv, GateKept
<1>11. PICK p \in PooledProviders : p = Provider(r)
  BY <1>2
<1> DEFINE pool == KeyAfterFailure(pools[p], req[r].key, code)
           qs == [pools EXCEPT ![p] = pool]
<1>12. /\ pool \in Pool
       /\ \A k \in Keys : pool[k].inFlight =
            IF k = req[r].key THEN OneLess(pools[p][k].inFlight) ELSE pools[p][k].inFlight
  BY <1>1, <1>11, KeyReturns
<1>13. pools' = qs
  BY <1>11 DEF CallFails
<1> HIDE DEF pool
<1>14. qs \in Pools /\ KeysHeld(after) /\ LeasesAgreeWith(qs, after, probe)
  <2>1. Head(req[r].selected) = p
    BY <1>11 DEF Provider
  <2>2. after[r].pc # "call"
    BY <1>6, <1>8
  <2>3. \A q \in Requests \ {r} : after[q] = req[q] \/ (req[q].pc # "call" /\ after[q].pc # "call")
    BY <1>8
  <2> QED
    BY <1>1, <1>8, <1>12, <2>1, <2>2, <2>3, LeaseEnded
<1>15. GateKept' /\ LeasesKept'
  BY <1>3, <1>5, <1>10, <1>13, <1>14 DEF RouterInv, GateKept, LeasesKept, NoneStartable
<1> QED
  BY <1>3, <1>5, <1>6, <1>8, <1>15 DEF RouterInv

LEMMA CallFailsKeeps ==
  ASSUME RouterInv, NEW r \in Requests, NEW code, CallFails(r, code)
  PROVE  RouterInv'
<1>1. CASE Pooled(Provider(r)) /\ IsKeyRecoverableProviderFailure(code)
  BY <1>1, RotationKeeps
<1>2. CASE ~(Pooled(Provider(r)) /\ IsKeyRecoverableProviderFailure(code))
  <2>1. req \in Calls /\ req[r].pc = "call"
    BY DEF RouterInv, CallFails
  <2>2. /\ Recording(r) \in Call /\ Chosen(Recording(r)) /\ Asked(Recording(r))
        /\ Recording(r).pc = "record_failed"
    BY <2>1, RecordingIs DEF Begun, InGate
  <2>3. Leave(r, Recording(r)) /\ probe' = probe /\ BudgetKept'
    BY <1>2 DEF CallFails, Fails, RouterInv, BudgetKept
  <2>4. CASE Pooled(Provider(r))
    <3> DEFINE pool == KeyAfterFailure(pools[Provider(r)], req[r].key, code)
    <3>1. pools' = [pools EXCEPT ![Provider(r)] = pool]
      BY <2>4 DEF CallFails
    <3>2. pool \in Pool
          /\ \A k \in Keys : pool[k].inFlight =
               IF k = req[r].key THEN OneLess(pools[Provider(r)][k].inFlight)
               ELSE pools[Provider(r)][k].inFlight
      BY <2>1, <2>4, KeyReturns
    <3> HIDE DEF pool
    <3> QED
      BY <2>1, <2>2, <2>3, <2>4, <3>1, <3>2, LeaveKeeps DEF AtGate, InGate
  <2>5. CASE ~Pooled(Provider(r))
    <3>1. pools' = pools
      BY <2>5 DEF CallFails
    <3> QED
      BY <2>1, <2>2, <2>3, <2>5, <3>1, LeaveKeeps DEF AtGate, InGate
  <2> QED
    BY <2>4, <2>5
<1> QED
  BY <1>1, <1>2

LEMMA CallReturnsKeeps ==
  ASSUME RouterInv, NEW r \in Requests, NEW valid \in BOOLEAN, CallReturns(r, valid)
  PROVE  RouterInv'
<1> DEFINE to == IF valid THEN "record_valid" ELSE "record_invalid"
           next == [req[r] EXCEPT !.pc = to, !.key = NoKey, !.turns = 0, !.code = "none"]
<1>1. req \in Calls /\ req[r].pc = "call"
  BY DEF RouterInv, CallReturns
<1>2. req[r] \in Call /\ req[r].capability \in Capabilities /\ req[r].selected # << >>
  BY <1>1, AtWork DEF Begun, InGate
<1>3. Leave(r, next) /\ probe' = probe /\ BudgetKept'
  BY DEF CallReturns, RouterInv, BudgetKept
<1>4. /\ next \in Call /\ next.pc \in RecordPcs /\ next.capability = req[r].capability
      /\ next.selected = req[r].selected
  BY <1>2 DEF Call, Begun, RecordPcs
<1> HIDE DEF next
<1>5. Chosen(next) /\ Asked(next) /\ next.pc \notin AtGate
  BY <1>2, <1>4 DEF Chosen, Asked, Asking, RecordPcs, AtGate, InGate
<1>6. CASE Pooled(Provider(r))
  <2> DEFINE pool == Released(pools[Provider(r)], req[r].key)
  <2>1. pools' = [pools EXCEPT ![Provider(r)] = pool]
    BY <1>6 DEF CallReturns
  <2>2. pool \in Pool
        /\ \A k \in Keys : pool[k].inFlight =
             IF k = req[r].key THEN OneLess(pools[Provider(r)][k].inFlight)
             ELSE pools[Provider(r)][k].inFlight
    BY <1>1, <1>6, KeyReturns
  <2> HIDE DEF pool
  <2> QED
    BY <1>1, <1>3, <1>4, <1>5, <1>6, <2>1, <2>2, LeaveKeeps
<1>7. CASE ~Pooled(Provider(r))
  <2>1. pools' = pools
    BY <1>7 DEF CallReturns
  <2> QED
    BY <1>1, <1>3, <1>4, <1>5, <1>7, <2>1, LeaveKeeps
<1> QED
  BY <1>6, <1>7

-----------------------------------------------------------------------------
(* The steps after the gate, and those of the credentials alone.           *)

LEMMA RecordKeeps ==
  ASSUME RouterInv, NEW r \in Requests, Record(r) \/ RecordFails(r)
  PROVE  RouterInv'
<1>1. req \in Calls /\ req[r].pc \in RecordPcs /\ req[r].pc \in Begun
  BY DEF RouterInv, Record, RecordFails, Begun
<1>2. /\ Onwards(r) \in Call /\ Chosen(Onwards(r)) /\ Asked(Onwards(r))
      /\ Onwards(r).pc \in {"over", "prompt"}
  BY <1>1, OnwardsIs
<1>3. /\ Recording(r) \in Call /\ Chosen(Recording(r)) /\ Asked(Recording(r))
      /\ Recording(r).pc = "record_failed"
  BY <1>1, RecordingIs
<1>4. Over \in Call /\ Chosen(Over) /\ Asked(Over) /\ Over.pc = "over"
  BY NewCalls
<1>5. PICK next \in {Over, Onwards(r), Recording(r)} : req' = [req EXCEPT ![r] = next]
  BY <1>1 DEF Record, RecordFails, RecordPcs
<1>6. /\ next \in Call /\ Chosen(next) /\ Asked(next) /\ next.pc \in {"over", "prompt", "record_failed"}
  BY <1>2, <1>3, <1>4, <1>5
<1>7. req[r].pc \notin AtGate /\ next.pc \notin AtGate
  BY <1>1, <1>6 DEF RecordPcs, AtGate, InGate
<1>8. gate' = gate /\ probe' = probe /\ pools' = pools
  BY DEF Record, RecordFails
<1>9. BudgetKept'
  <2>1. snapshot \in Budget /\ spent \in [Paid -> Nat]
    BY DEF RouterInv, BudgetKept
  <2>2. CASE RecordFails(r)
    BY <2>1, <2>2 DEF RecordFails, BudgetKept
  <2>3. CASE Record(r)
    <3>1. Stored(r)
      BY <2>3 DEF Record
    <3>2. NoSnapshot \in [Paid -> Nat]
      BY RoutingAssumption DEF NoSnapshot
    <3>3. snapshot' \in Budget
      BY <2>1, <3>1, <3>2 DEF Stored, Budget
    <3>4. PICK units \in (IF BudgetEnabled THEN UnitsSpent(r) ELSE {0}) :
            spent' = IF units = 0 THEN spent
                     ELSE [spent EXCEPT ![Provider(r)] = IF @ < ExhaustedAt THEN @ + units ELSE @]
      BY <3>1 DEF Stored
    <3>5. units \in {0, 1} /\ (units = 0 \/ Provider(r) \in Paid)
      BY <3>4 DEF UnitsSpent
    <3>6. spent' \in [Paid -> Nat]
      BY <2>1, <3>4, <3>5
    <3> QED
      BY <3>3, <3>6 DEF BudgetKept
  <2> QED
    BY <2>2, <2>3
<1> QED
  BY <1>5, <1>6, <1>7, <1>8, <1>9, QuietCall

LEMMA PromptMissingKeeps ==
  ASSUME RouterInv, NEW r \in Requests, PromptMissing(r) \/ PromptFails(r)
  PROVE  RouterInv'
<1>1. req \in Calls /\ req[r].pc = "prompt" /\ req[r].pc \in Begun
  BY DEF RouterInv, PromptMissing, PromptFails, Begun
<1>2. /\ Onwards(r) \in Call /\ Chosen(Onwards(r)) /\ Asked(Onwards(r))
      /\ Onwards(r).pc \in {"over", "prompt"}
  BY <1>1, OnwardsIs
<1>3. Over \in Call /\ Chosen(Over) /\ Asked(Over) /\ Over.pc = "over"
  BY NewCalls
<1>4. PICK next \in {Over, Onwards(r)} : req' = [req EXCEPT ![r] = next]
  BY DEF PromptMissing, PromptFails
<1>5. next \in Call /\ Chosen(next) /\ Asked(next) /\ next.pc \in {"over", "prompt"}
  BY <1>2, <1>3, <1>4
<1>6. req[r].pc \notin AtGate /\ next.pc \notin AtGate
  BY <1>1, <1>5 DEF AtGate, InGate
<1>7. gate' = gate /\ probe' = probe /\ pools' = pools /\ BudgetKept'
  BY DEF PromptMissing, PromptFails, RouterInv, BudgetKept
<1> QED
  BY <1>4, <1>5, <1>6, <1>7, QuietCall

LEMMA KeysAloneKeep ==
  ASSUME RouterInv,
         \/ \E key \in circuit : CircuitCloses(key)
         \/ \E p \in DOMAIN pools : ProbeStarts(p) \/ \E key \in Keys : KeyCools(p, key)
         \/ ProbeEnds
  PROVE  RouterInv'
<1>1. req \in Calls /\ pools \in Pools /\ KeysHeld(req) /\ LeasesAgreeWith(pools, req, probe)
      /\ probe \in Probes /\ DOMAIN pools = PooledProviders
  BY DEF RouterInv, LeasesKept, Pools
<1>2. \A p \in PooledProviders : pools[p] \in Pool
  BY <1>1 DEF Pools
<1>3. ASSUME NEW key \in circuit, CircuitCloses(key) PROVE RouterInv'
  <2>1. req' = req /\ gate' = gate /\ probe' = probe /\ pools' = pools /\ BudgetKept'
    BY <1>3 DEF CircuitCloses, RouterInv, BudgetKept
  <2> QED
    BY <1>1, <2>1, QuietStep
<1>4. ASSUME NEW p \in PooledProviders, NEW key \in Keys, KeyCools(p, key) PROVE RouterInv'
  <2> DEFINE pool == CooledDown(pools[p], key)
  <2>1. pool \in Pool /\ \A k \in Keys : pool[k].inFlight = pools[p][k].inFlight
    BY <1>2, PoolMoves
  <2>2. pools' = [pools EXCEPT ![p] = pool]
    BY <1>4 DEF KeyCools
  <2> HIDE DEF pool
  <2>3. /\ pools' \in Pools
        /\ \A o \in PooledProviders, k \in Keys : pools'[o][k].inFlight = pools[o][k].inFlight
    BY <1>1, <2>1, <2>2 DEF Pools
  <2>4. req' = req /\ gate' = gate /\ probe' = probe /\ BudgetKept'
    BY <1>4 DEF KeyCools, RouterInv, BudgetKept
  <2> QED
    BY <1>1, <2>3, <2>4, QuietStep
\* The probe holds its key in place of a call.
<1>5. ASSUME req' = req, gate' = gate, BudgetKept', probe' \in Probes, pools' \in Pools,
             LeasesAgreeWith(pools', req, probe')
      PROVE  RouterInv'
  BY <1>1, <1>5 DEF RouterInv, GateKept, LeasesKept, NoneStartable, KeysHeld
<1>6. ASSUME NEW p \in PooledProviders, ProbeStarts(p) PROVE RouterInv'
  <2>1. PICK key \in Acquirable(pools[p]) :
          /\ probe' = [provider |-> p, key |-> key]
          /\ pools' = [pools EXCEPT ![p] = Acquired(@, key)]
    BY <1>6 DEF ProbeStarts
  <2>2. key \in Keys /\ probe = NoProbe
    BY <1>6 DEF Acquirable, Healthy, ProbeStarts
  <2> DEFINE pool == Acquired(pools[p], key)
  <2>3. pool \in Pool
        /\ \A k \in Keys : pool[k].inFlight =
             IF k = key THEN pools[p][k].inFlight + 1 ELSE pools[p][k].inFlight
    BY <1>2, <2>2, PoolMoves
  <2>4. pools' = [pools EXCEPT ![p] = pool]
    BY <2>1
  <2> HIDE DEF pool
  <2>5. pools' \in Pools /\ \A o \in PooledProviders : pools'[o] = IF o = p THEN pool ELSE pools[o]
    BY <1>1, <2>3, <2>4 DEF Pools
  <2>6. ASSUME NEW o \in PooledProviders, NEW k \in Keys
        PROVE  pools'[o][k].inFlight = Cardinality(HoldersIn(req, o, k))
                 + (IF probe' = [provider |-> o, key |-> k] THEN 1 ELSE 0)
    <3>1. Cardinality(HoldersIn(req, o, k)) \in Nat
      BY HoldersAreFinite
    <3>2. probe # [provider |-> o, key |-> k]
      <4>1. [provider |-> o, key |-> k].key = k /\ NoProbe.key = NoKey /\ k # NoKey
        BY RoutingAssumption DEF NoProbe, NoKey
      <4> QED
        BY <2>2, <4>1
    <3>3. pools[o][k].inFlight = Cardinality(HoldersIn(req, o, k))
      BY <1>1, <3>1, <3>2 DEF LeasesAgreeWith
    <3>4. probe' = [provider |-> o, key |-> k] <=> o = p /\ k = key
      BY <2>1
    <3> QED
      BY <2>3, <2>5, <3>1, <3>3, <3>4
  <2>7. LeasesAgreeWith(pools', req, probe')
    BY <2>6 DEF LeasesAgreeWith
  <2>8. req' = req /\ gate' = gate /\ BudgetKept' /\ probe' \in Probes
    BY <1>6, <2>1, <2>2 DEF ProbeStarts, RouterInv, BudgetKept, Probes
  <2> QED
    BY <1>5, <2>5, <2>7, <2>8
<1>7. ASSUME ProbeEnds PROVE RouterInv'
  <2>1. PICK p \in PooledProviders, key \in Keys : probe = [provider |-> p, key |-> key]
    BY <1>1, <1>7 DEF ProbeEnds, Probes
  <2>2. probe.provider = p /\ probe.key = key
    BY <2>1
  <2>3. \E pool \in Pool :
          /\ pools' = [pools EXCEPT ![p] = pool]
          /\ \A k \in Keys : pool[k].inFlight =
               IF k = key THEN OneLess(pools[p][k].inFlight) ELSE pools[p][k].inFlight
    <3>1. CASE pools' = [pools EXCEPT ![p] = Released(@, key)]
      <4> DEFINE pool == Released(pools[p], key)
      <4>1. pool \in Pool
            /\ \A k \in Keys : pool[k].inFlight =
                 IF k = key THEN OneLess(pools[p][k].inFlight) ELSE pools[p][k].inFlight
        BY <1>2, PoolMoves
      <4>2. pools' = [pools EXCEPT ![p] = pool]
        BY <3>1
      <4> HIDE DEF pool
      <4> QED
        BY <4>1, <4>2
    <3>2. ASSUME NEW code, pools' = [pools EXCEPT ![p] = Failed(@, key, code)]
          PROVE  \E pool \in Pool :
                   /\ pools' = [pools EXCEPT ![p] = pool]
                   /\ \A k \in Keys : pool[k].inFlight =
                        IF k = key THEN OneLess(pools[p][k].inFlight) ELSE pools[p][k].inFlight
      <4> DEFINE pool == Failed(pools[p], key, code)
      <4>1. PICK was \in Pool : was = pools[p]
        BY <1>2
      <4>2. \A c : /\ Failed(was, key, c) \in Pool
                  /\ \A k \in Keys : Failed(was, key, c)[k].inFlight =
                       IF k = key THEN OneLess(was[k].inFlight) ELSE was[k].inFlight
        BY <2>1, <4>1, PoolMoves
      <4>3. pool \in Pool
            /\ \A k \in Keys : pool[k].inFlight =
                 IF k = key THEN OneLess(pools[p][k].inFlight) ELSE pools[p][k].inFlight
        BY <4>1, <4>2
      <4>4. pools' = [pools EXCEPT ![p] = pool]
        BY <3>2
      <4> HIDE DEF pool
      <4> QED
        BY <4>3, <4>4
    <3> QED
      BY <1>7, <2>2, <3>1, <3>2 DEF ProbeEnds
  <2>4. PICK pool \in Pool :
          /\ pools' = [pools EXCEPT ![p] = pool]
          /\ \A k \in Keys : pool[k].inFlight =
               IF k = key THEN OneLess(pools[p][k].inFlight) ELSE pools[p][k].inFlight
    BY <2>3
  <2>5. pools' \in Pools /\ \A o \in PooledProviders : pools'[o] = IF o = p THEN pool ELSE pools[o]
    BY <1>1, <2>4 DEF Pools
  <2>6. ASSUME NEW o \in PooledProviders, NEW k \in Keys
        PROVE  pools'[o][k].inFlight = Cardinality(HoldersIn(req, o, k))
                 + (IF probe' = [provider |-> o, key |-> k] THEN 1 ELSE 0)
    <3>1. Cardinality(HoldersIn(req, o, k)) \in Nat
      BY HoldersAreFinite
    <3>2. probe' # [provider |-> o, key |-> k]
      <4>1. [provider |-> o, key |-> k].key = k /\ NoProbe.key = NoKey /\ k # NoKey
        BY RoutingAssumption DEF NoProbe, NoKey
      <4> QED
        BY <1>7, <4>1 DEF ProbeEnds
    <3>3. probe = [provider |-> o, key |-> k] <=> o = p /\ k = key
      BY <2>1
    <3>4. pools[o][k].inFlight = Cardinality(HoldersIn(req, o, k)) + (IF o = p /\ k = key THEN 1 ELSE 0)
      BY <1>1, <3>1, <3>3 DEF LeasesAgreeWith
    <3>5. pools'[o][k].inFlight = Cardinality(HoldersIn(req, o, k))
      BY <2>4, <2>5, <3>1, <3>4 DEF OneLess
    <3> QED
      BY <3>1, <3>2, <3>5
  <2>7. LeasesAgreeWith(pools', req, probe')
    BY <2>6 DEF LeasesAgreeWith
  <2>8. req' = req /\ gate' = gate /\ BudgetKept' /\ probe' \in Probes
    BY <1>7 DEF ProbeEnds, RouterInv, BudgetKept, Probes
  <2> QED
    BY <1>5, <2>5, <2>7, <2>8
<1> QED
  BY <1>1, <1>3, <1>4, <1>6, <1>7

LEMMA RouterStep ==
  ASSUME RouterInv, Next
  PROVE  RouterInv'
<1>1. ASSUME NEW r \in Requests, Works(r) PROVE RouterInv'
  <2>1. CASE ReadCached(r) \/ AskSnapshot(r)
    BY <2>1, BudgetKeeps
  <2>2. CASE Select(r)
    BY <2>2, SelectKeeps
  <2>3. CASE PromptFound(r)
    BY <2>3, PromptFoundKeeps
  <2>4. CASE PromptMissing(r) \/ PromptFails(r)
    BY <2>4, PromptMissingKeeps
  <2>5. CASE Acquire(r)
    BY <2>5, AcquireKeeps
  <2>6. CASE NoCredential(r)
    BY <2>6, NoCredentialKeeps
  <2>7. CASE CallEnds(r)
    BY <2>7, CallFailsKeeps, CallReturnsKeeps DEF CallEnds
  <2>8. CASE Record(r) \/ RecordFails(r)
    BY <2>8, RecordKeeps
  <2> QED
    BY <1>1, <2>1, <2>2, <2>3, <2>4, <2>5, <2>6, <2>7, <2>8 DEF Works
<1>2. ASSUME NEW r \in Requests, NEW c \in Capabilities, Ask(r, c) PROVE RouterInv'
  BY <1>2, AskKeeps
<1>3. CASE Aggregate \/ SnapshotArrives \/ SnapshotFails \/ CacheExpires
  BY <1>3, BudgetKeeps
<1>4. CASE \/ \E key \in circuit : CircuitCloses(key)
           \/ \E p \in DOMAIN pools : ProbeStarts(p) \/ \E key \in Keys : KeyCools(p, key)
           \/ ProbeEnds
  BY <1>4, KeysAloneKeep
<1> QED
  BY <1>1, <1>2, <1>3, <1>4 DEF Next

LEMMA RouterStart ==
  ASSUME Init
  PROVE  RouterInv
<1>1. NoSnapshot \in [Paid -> Nat]
  BY RoutingAssumption DEF NoSnapshot
<1>2. BudgetKept
  <2>1. InitialSpend \subseteq Nat
    BY RoutingAssumption
  <2>3. spent \in [Paid -> Nat]
    BY <2>1 DEF Init
  <2>2. snapshot \in Budget
    BY <1>1 DEF Init, Budget
  <2> QED
    BY <2>2, <2>3 DEF BudgetKept
<1>3. req = [r \in Requests |-> Fresh] /\ Fresh \in Call /\ Chosen(Fresh) /\ Asked(Fresh)
      /\ Fresh.pc = "idle"
  BY NewCalls DEF Init
<1>4. req \in Calls
  BY <1>3 DEF Calls
<1>5. gate = EmptyGate /\ gate.queue = << >> /\ gate \in Gate
      /\ (\A place \in Places : gate.providerActive[place] = 0)
      /\ (\A c \in Capabilities : gate.capabilityActive[c] = 0)
  BY DEF Init, EmptyGate, Gate, Places
<1>6. Cardinality({}) = 0
  BY FS_EmptySet
<1>7. CountersAgreeWith(gate, req)
  <2>1. \A place \in Places : Within(req, place) = {}
    BY <1>3 DEF Within, InGate
  <2>2. \A c \in Capabilities : Doing(req, c) = {}
    BY <1>3 DEF Doing, InGate
  <2>3. /\ \A place \in Places : 0 <= ProviderLimit[place]
        /\ \A c \in Capabilities : 0 <= CapabilityLimit[c]
    BY LimitsAssumption DEF Places
  <2> QED
    BY <1>5, <1>6, <2>1, <2>2, <2>3 DEF CountersAgreeWith
<1>8. QueueAgreesWith(gate, req)
  BY <1>3, <1>5 DEF QueueAgreesWith, Distinct
<1>9. NoneStartable
  BY <1>5 DEF NoneStartable
<1>10. pools = [p \in PooledProviders |-> FreshPool(Keys)] /\ probe = NoProbe
  BY DEF Init, PooledProviders
<1>11. FreshPool(Keys) \in Pool /\ \A key \in Keys : FreshPool(Keys)[key].inFlight = 0
  BY DEF FreshPool, Pool, PoolKey
<1>12. pools \in Pools /\ probe \in Probes
  BY <1>10, <1>11 DEF Pools, Probes
<1>13. KeysHeld(req)
  BY <1>3 DEF KeysHeld
<1>14. ASSUME NEW p \in PooledProviders, NEW key \in Keys
       PROVE  pools[p][key].inFlight =
                Cardinality(HoldersIn(req, p, key)) + (IF probe = [provider |-> p, key |-> key] THEN 1 ELSE 0)
  <2>1. HoldersIn(req, p, key) = {}
    BY <1>3 DEF HoldersIn
  <2>2. probe # [provider |-> p, key |-> key]
    <3>1. [provider |-> p, key |-> key].key = key /\ NoProbe.key = NoKey /\ key # NoKey
      BY RoutingAssumption DEF NoProbe, NoKey
    <3> QED
      BY <1>10, <3>1
  <2> QED
    BY <1>6, <1>10, <1>11, <2>1, <2>2
<1>15. LeasesAgreeWith(pools, req, probe)
  BY <1>14 DEF LeasesAgreeWith
<1> QED
  BY <1>2, <1>4, <1>5, <1>7, <1>8, <1>9, <1>12, <1>13, <1>15
     DEF RouterInv, GateKept, GateAgrees, LeasesKept

\* Positions that hold different calls are as many as these calls.
LEMMA DifferentCalls ==
  ASSUME NEW S, NEW g, \A i \in S : g.queue[i].id \in Requests,
         \A i, j \in S : g.queue[i].id = g.queue[j].id => i = j, IsFiniteSet(S)
  PROVE  Cardinality({g.queue[i].id : i \in S}) = Cardinality(S)
<1> DEFINE f == [i \in S |-> g.queue[i].id]
<1>1. IsFiniteSet(S)
  OBVIOUS
<1>2. f \in Injection(S, Requests)
  BY DEF Injection, IsInjective
<1>3. {g.queue[i].id : i \in S} = {f[x] : x \in S}
  OBVIOUS
<1> HIDE DEF f
<1>4. IsFiniteSet({f[x] : x \in S}) /\ Cardinality({f[x] : x \in S}) = Cardinality(S)
  BY <1>1, <1>2, ImageCardinality
<1> QED
  BY <1>3, <1>4

\* A queue that holds each call once is as long as the calls it holds are many.
LEMMA AsManyAsItems ==
  ASSUME NEW g \in Gate, Distinct(g)
  PROVE  Cardinality(Waiting(g)) = Len(g.queue)
<1>1. /\ Len(g.queue) \in Nat /\ DOMAIN g.queue = 1..Len(g.queue)
      /\ \A i \in DOMAIN g.queue : g.queue[i].id \in Requests
  <2>1. ASSUME NEW i \in DOMAIN g.queue PROVE g.queue[i].id \in Requests
    <3>1. g.queue[i] \in Item
      BY DEF Gate
    <3> QED
      BY <3>1 DEF Item
  <2> QED
    BY <2>1 DEF Gate
<1>2. IsFiniteSet(DOMAIN g.queue) /\ Cardinality(DOMAIN g.queue) = Len(g.queue)
  <2>1. IsFiniteSet(1..Len(g.queue)) /\ Cardinality(1..Len(g.queue)) = Len(g.queue)
    BY <1>1, FS_Interval
  <2> QED
    BY <1>1, <2>1
<1>3. \A i, j \in DOMAIN g.queue : g.queue[i].id = g.queue[j].id => i = j
  BY DEF Distinct
<1>4. Cardinality({g.queue[i].id : i \in DOMAIN g.queue}) = Cardinality(DOMAIN g.queue)
  BY <1>1, <1>2, <1>3, DifferentCalls
<1> QED
  BY <1>2, <1>4 DEF Waiting

LEMMA RouterPromise ==
  ASSUME RouterInv
  PROVE  PlacesAgree
<1>1. req \in Calls /\ gate \in Gate /\ CountersAgreeWith(gate, req) /\ QueueAgreesWith(gate, req)
      /\ NoneStartable /\ LeasesAgreeWith(pools, req, probe) /\ pools \in Pools
  BY DEF RouterInv, GateKept, GateAgrees, LeasesKept
<1>2. ASSUME NEW p \in AiProviders, NEW class \in {"TEXT", "MEDIA"}
      PROVE  /\ gate.providerActive[<<p, class>>] = Cardinality(Calling(p, class))
             /\ Cardinality(Calling(p, class)) <= ProviderLimit[<<p, class>>]
  <2>1. <<p, class>> \in Places
    BY DEF Places
  <2>2. Calling(p, class) = Within(req, <<p, class>>)
    BY DEF Calling, Within, PlaceOf, Provider
  <2> QED
    BY <1>1, <2>1, <2>2 DEF CountersAgreeWith
<1>3. ASSUME NEW c \in Capabilities
      PROVE  LET inside == {r \in Requests : req[r].pc \in InGate /\ req[r].capability = c}
             IN  /\ gate.capabilityActive[c] = Cardinality(inside)
                 /\ Cardinality(inside) <= CapabilityLimit[c]
  BY <1>1 DEF CountersAgreeWith, Doing
<1> DEFINE n == Len(gate.queue)
<1>4. n \in Nat /\ DOMAIN gate.queue = 1..n
  BY <1>1 DEF Gate
<1>5. \A i \in DOMAIN gate.queue : gate.queue[i] \in Item
  BY <1>1 DEF Gate
<1>6. \A i \in DOMAIN gate.queue : gate.queue[i].id \in Requests
  BY <1>5 DEF Item
<1>7. Waiting(gate) = {r \in Requests : req[r].pc = "queued"}
  BY <1>1, <1>6 DEF Waiting, QueueAgreesWith
<1>8. n = Cardinality(Waiting(gate))
  BY <1>1, AsManyAsItems DEF QueueAgreesWith
<1>9. SlotsAgree
  BY <1>2, <1>3, <1>7, <1>8 DEF SlotsAgree
<1>10. LeasesAgree
  <2>1. \A p, key : Holders(p, key) = HoldersIn(req, p, key)
    BY DEF Holders, HoldersIn, Provider
  <2>2. DOMAIN pools = PooledProviders
    BY <1>1 DEF Pools
  <2> QED
    BY <1>1, <2>1, <2>2 DEF LeasesAgree, LeasesAgreeWith
<1> QED
  BY <1>1, <1>9, <1>10 DEF PlacesAgree

LEMMA RouterStutter ==
  ASSUME RouterInv, UNCHANGED vars
  PROVE  RouterInv'
BY DEF vars, RouterInv, BudgetKept, GateKept, NoneStartable, LeasesKept


-----------------------------------------------------------------------------
(* Calls that take keys in turn, outside the router.                       *)

KeyCodes ==
  {"none", "OK", "AUTHENTICATION_FAILED", "RATE_LIMITED", "TIMEOUT", "INVALID_RESPONSE", "UNAVAILABLE"}
KeyCall ==
  [at : {"try", "sent", "ended"}, tried : Nat, lease : Keys \cup {NoHolder}, held : BOOLEAN, code : KeyCodes]

Takers(calls, key) == {c \in KeyCalls : calls[c].lease = key}
CountedBy(calls, pool) == \A key \in Keys : pool[key].inFlight = Cardinality(Takers(calls, key))
SomeDisabled(pool) == \E key \in Keys : pool[key].disabled

\* A call has a lease exactly while its request is out; a key refused once is disabled.
KeyInv ==
  /\ keyPool \in Pool /\ keyCall \in [KeyCalls -> KeyCall]
  /\ \A c \in KeyCalls : IF keyCall[c].at = "sent" THEN keyCall[c].held /\ keyCall[c].lease \in Keys
                         ELSE ~keyCall[c].held /\ keyCall[c].lease = NoHolder
  /\ CountedBy(keyCall, keyPool)
  /\ \A c \in KeyCalls : keyCall[c].code = "AUTHENTICATION_FAILED" => SomeDisabled(keyPool)

\* What becomes of the keys that are disabled.
LEMMA DisabledStays ==
  ASSUME NEW pool \in Pool, NEW key \in Keys
  PROVE  /\ \A k \in Keys : Acquired(pool, key)[k].disabled = pool[k].disabled
         /\ \A k \in Keys : Released(pool, key)[k].disabled = pool[k].disabled
         /\ \A k \in Keys : CooledDown(pool, key)[k].disabled = pool[k].disabled
         /\ \A code : \A k \in Keys : pool[k].disabled => Failed(pool, key, code)[k].disabled
         /\ Failed(pool, key, "AUTHENTICATION_FAILED")[key].disabled
<1>1. pool[key] \in PoolKey /\ \A k \in Keys : pool[k] \in PoolKey
  BY DEF Pool
<1>2. /\ \A k \in Keys : Acquired(pool, key)[k].disabled = pool[k].disabled
      /\ \A k \in Keys : Released(pool, key)[k].disabled = pool[k].disabled
      /\ \A k \in Keys : CooledDown(pool, key)[k].disabled = pool[k].disabled
  BY <1>1 DEF Acquired, Released, CooledDown, Pool, PoolKey
<1>3. ASSUME NEW code
      PROVE  /\ \A k \in Keys : pool[k].disabled => Failed(pool, key, code)[k].disabled
             /\ code = "AUTHENTICATION_FAILED" => Failed(pool, key, code)[key].disabled
  <2> DEFINE mid == Released(pool, key)
             dis == code \in {"AUTHENTICATION_FAILED", "BILLING_REQUIRED", "INVALID_MODEL"}
             cool == code \in {"RATE_LIMITED", "UNAVAILABLE", "TIMEOUT"}
             one == [mid EXCEPT ![key].disabled = @ \/ dis]
             two == [one EXCEPT ![key].cooling = @ \/ cool]
  <2>1. /\ mid \in Pool /\ dis \in BOOLEAN /\ cool \in BOOLEAN
        /\ \A k \in Keys : mid[k].disabled = pool[k].disabled
        /\ code = "AUTHENTICATION_FAILED" => dis
    BY <1>2, PoolMoves
  <2>2. Failed(pool, key, code) = two
    BY DEF Failed
  <2> HIDE DEF mid, dis, cool
  <2>3. mid[key] \in PoolKey /\ (mid[key].disabled \/ dis) \in BOOLEAN
    BY <2>1 DEF Pool, PoolKey
  <2>4. /\ one \in Pool
        /\ \A k \in Keys : one[k].disabled = IF k = key THEN mid[k].disabled \/ dis ELSE mid[k].disabled
    BY <2>1, <2>3 DEF Pool, PoolKey
  <2> HIDE DEF one
  <2>5. one[key] \in PoolKey /\ (one[key].cooling \/ cool) \in BOOLEAN
    BY <2>1, <2>4 DEF Pool, PoolKey
  <2>6. \A k \in Keys : two[k].disabled = one[k].disabled
    BY <2>4, <2>5 DEF Pool, PoolKey
  <2> HIDE DEF two
  <2> QED
    BY <2>1, <2>2, <2>4, <2>6
<1> QED
  BY <1>2, <1>3

\* One call takes or gives back a key, and the key's count moves with it.
LEMMA TakersMove ==
  ASSUME NEW calls, NEW after, NEW c \in KeyCalls, \A o \in KeyCalls \ {c} : after[o] = calls[o],
         NEW pool \in Pool, NEW left \in Pool, CountedBy(calls, pool), NEW key \in Keys,
         \/ /\ calls[c].lease = NoHolder /\ after[c].lease = key
            /\ \A k \in Keys : left[k].inFlight = IF k = key THEN pool[k].inFlight + 1 ELSE pool[k].inFlight
         \/ /\ calls[c].lease = key /\ after[c].lease = NoHolder
            /\ \A k \in Keys : left[k].inFlight =
                 IF k = key THEN OneLess(pool[k].inFlight) ELSE pool[k].inFlight
  PROVE  CountedBy(after, left)
<1>1. NoHolder \notin Keys
  BY KeyAssumption DEF NoHolder
<1>2. ASSUME NEW k \in Keys
      PROVE  IsFiniteSet(Takers(calls, k)) /\ Cardinality(Takers(calls, k)) \in Nat
  <2>1. Takers(calls, k) \in SUBSET KeyCalls
    BY DEF Takers
  <2> QED
    BY <2>1, KeyAssumption, FS_Subset, FS_CardinalityType
<1>3. ASSUME NEW k \in Keys \ {key} PROVE left[k].inFlight = Cardinality(Takers(after, k))
  <2>1. Takers(after, k) = Takers(calls, k)
    BY <1>1 DEF Takers
  <2> QED
    BY <2>1 DEF CountedBy
<1>4. left[key].inFlight = Cardinality(Takers(after, key))
  <2>1. CASE calls[c].lease = NoHolder /\ after[c].lease = key
             /\ left[key].inFlight = pool[key].inFlight + 1
    <3>1. Takers(after, key) = Takers(calls, key) \cup {c} /\ c \notin Takers(calls, key)
      BY <1>1, <2>1 DEF Takers
    <3>2. Cardinality(Takers(calls, key) \cup {c}) = Cardinality(Takers(calls, key)) + 1
      BY <1>2, <3>1, FS_AddElement
    <3> QED
      BY <2>1, <3>1, <3>2 DEF CountedBy
  <2>2. CASE calls[c].lease = key /\ after[c].lease = NoHolder
             /\ left[key].inFlight = OneLess(pool[key].inFlight)
    <3>1. Takers(after, key) = Takers(calls, key) \ {c} /\ c \in Takers(calls, key)
      BY <1>1, <2>2 DEF Takers
    <3>2. Cardinality(Takers(calls, key) \ {c}) = Cardinality(Takers(calls, key)) - 1
      BY <1>2, <3>1, FS_RemoveElement
    <3>3. Cardinality(Takers(calls, key)) # 0
      BY <1>2, <3>1, FS_EmptySet
    <3>4. OneLess(Cardinality(Takers(calls, key))) = Cardinality(Takers(calls, key)) - 1
      BY <3>3 DEF OneLess
    <3> QED
      BY <2>2, <3>1, <3>2, <3>4 DEF CountedBy
  <2> QED
    BY <2>1, <2>2
<1> QED
  BY <1>3, <1>4 DEF CountedBy

LEMMA KeyStart ==
  ASSUME KeyInit
  PROVE  KeyInv
<1>1. NewKeyCall \in KeyCall /\ ~NewKeyCall.held /\ NewKeyCall.lease = NoHolder
      /\ NewKeyCall.at = "try" /\ NewKeyCall.code = "none"
  BY DEF NewKeyCall, KeyCall, KeyCodes
<1>2. keyCall = [c \in KeyCalls |-> NewKeyCall] /\ keyPool = FreshPool(Keys)
  BY DEF KeyInit
<1>3. keyPool \in Pool /\ \A key \in Keys : keyPool[key].inFlight = 0
  BY <1>2 DEF FreshPool, Pool, PoolKey
<1>4. \A key \in Keys : Takers(keyCall, key) = {}
  BY <1>1, <1>2, KeyAssumption DEF Takers, NoHolder
<1>5. CountedBy(keyCall, keyPool)
  BY <1>3, <1>4, FS_EmptySet DEF CountedBy
<1> QED
  BY <1>1, <1>2, <1>3, <1>5 DEF KeyInv

LEMMA TakesKeeps ==
  ASSUME KeyInv, NEW c \in KeyCalls, Takes(c)
  PROVE  KeyInv'
<1>1. PICK key \in Keys :
        /\ keyPool' = Acquired(keyPool, key)
        /\ keyCall' = [keyCall EXCEPT ![c].at = "sent", ![c].tried = @ + 1, ![c].lease = key, ![c].held = TRUE]
  BY DEF Takes, Acquirable, Healthy
<1>2. keyCall \in [KeyCalls -> KeyCall] /\ keyPool \in Pool /\ keyCall[c].at = "try"
      /\ keyCall[c].lease = NoHolder
  BY DEF KeyInv, Takes
<1>3. /\ keyCall' \in [KeyCalls -> KeyCall]
      /\ \A o \in KeyCalls \ {c} : keyCall'[o] = keyCall[o]
      /\ keyCall'[c].at = "sent" /\ keyCall'[c].lease = key /\ keyCall'[c].held
      /\ keyCall'[c].code = keyCall[c].code
  BY <1>1, <1>2 DEF KeyCall
<1>4. keyPool' \in Pool
      /\ \A k \in Keys : keyPool'[k].inFlight =
           IF k = key THEN keyPool[k].inFlight + 1 ELSE keyPool[k].inFlight
  BY <1>1, <1>2, PoolMoves
<1>5. \A k \in Keys : keyPool'[k].disabled = keyPool[k].disabled
  BY <1>1, <1>2, DisabledStays
<1>6. CountedBy(keyCall, keyPool)
  BY DEF KeyInv
<1>7. CountedBy(keyCall, keyPool)'
  BY <1>2, <1>3, <1>4, <1>6, TakersMove
<1> QED
  BY <1>2, <1>3, <1>4, <1>5, <1>7 DEF KeyInv, SomeDisabled

LEMMA GivesUpKeeps ==
  ASSUME KeyInv, NEW c \in KeyCalls, GivesUp(c)
  PROVE  KeyInv'
<1>1. keyCall \in [KeyCalls -> KeyCall] /\ keyPool \in Pool /\ keyCall[c] \in KeyCall
  BY DEF KeyInv
<1>2. keyPool' = keyPool /\ keyCall[c].at = "try"
      /\ keyCall' = [keyCall EXCEPT ![c].at = "ended",
                       ![c].code = IF @ = "none" THEN "RATE_LIMITED" ELSE @]
  BY DEF GivesUp
<1>3. /\ keyCall' \in [KeyCalls -> KeyCall]
      /\ \A o \in KeyCalls \ {c} : keyCall'[o] = keyCall[o]
      /\ keyCall'[c].at = "ended" /\ keyCall'[c].lease = keyCall[c].lease
      /\ keyCall'[c].held = keyCall[c].held
      /\ keyCall'[c].code = "AUTHENTICATION_FAILED" => keyCall[c].code = "AUTHENTICATION_FAILED"
  BY <1>1, <1>2 DEF KeyCall, KeyCodes
<1>4. \A key : Takers(keyCall, key)' = Takers(keyCall, key)
  BY <1>3 DEF Takers
<1>5. CountedBy(keyCall, keyPool)'
  <2>1. CountedBy(keyCall, keyPool)
    BY DEF KeyInv
  <2> QED
    BY <1>2, <1>4, <2>1 DEF CountedBy
<1>6. \A o \in KeyCalls : IF keyCall'[o].at = "sent" THEN keyCall'[o].held /\ keyCall'[o].lease \in Keys
                        ELSE ~keyCall'[o].held /\ keyCall'[o].lease = NoHolder
  BY <1>2, <1>3 DEF KeyInv
<1>7. \A o \in KeyCalls : keyCall'[o].code = "AUTHENTICATION_FAILED" => SomeDisabled(keyPool)
  BY <1>3 DEF KeyInv
<1> QED
  BY <1>1, <1>2, <1>3, <1>5, <1>6, <1>7 DEF KeyInv

\* Failing twice is failing once, for the lease ends the first time.
LEMMA AnsweredKeeps ==
  ASSUME KeyInv, NEW c \in KeyCalls, Answered(c)
  PROVE  KeyInv'
<1>1. keyCall \in [KeyCalls -> KeyCall] /\ keyPool \in Pool /\ keyCall[c] \in KeyCall
      /\ keyCall[c].held /\ keyCall[c].lease \in Keys
  BY DEF KeyInv, Answered
<1>2. PICK pool \in Pool, key \in Keys : pool = keyPool /\ key = keyCall[c].lease
  BY <1>1
<1>3. PICK answer \in KeyAnswers, code \in KeyCodes :
        /\ keyPool' = Released(pool, key) \/ keyPool' = Failed(pool, key, code)
        /\ code = "AUTHENTICATION_FAILED" => keyPool' = Failed(pool, key, code)
        /\ \E at \in {"try", "ended"} :
             keyCall' = [keyCall EXCEPT ![c].held = FALSE, ![c].lease = NoHolder, ![c].code = code, ![c].at = at]
  <2> DEFINE call == keyCall[c]
             well(answer) == answer = "ok" \/ (answer = "odd" /\ keyProvider = "GROQ")
             twice(answer) == keyProvider = "TAVILY" /\ Rejected(answer)
             seen(answer) == IF twice(answer) THEN FailsOnce(keyPool, call, KeyCode(answer)) ELSE keyPool
             caught(answer) == FailsOnce(seen(answer), [call EXCEPT !.held = ~twice(answer)], KeyCode(answer))
  <2>1. PICK answer \in KeyAnswers :
          /\ keyPool' = IF well(answer) THEN Released(keyPool, call.lease) ELSE caught(answer)
          /\ keyCall' = [keyCall EXCEPT ![c].held = FALSE, ![c].lease = NoHolder, ![c].code = KeyCode(answer),
                           ![c].at = IF IsKeyRecoverableProviderFailure(KeyCode(answer)) THEN "try" ELSE "ended"]
    BY DEF Answered
  <2>2. KeyCode(answer) \in KeyCodes /\ (KeyCode(answer) = "AUTHENTICATION_FAILED" => ~well(answer))
    BY <2>1 DEF KeyCode, KeyCodes, KeyAnswers
  <2>3. /\ [call EXCEPT !.held = ~twice(answer)].held = ~twice(answer)
        /\ [call EXCEPT !.held = ~twice(answer)].lease = key
    BY <1>1, <1>2 DEF KeyCall
  <2>4. caught(answer) = Failed(pool, key, KeyCode(answer))
    <3>1. CASE twice(answer)
      BY <1>1, <1>2, <2>3, <3>1 DEF FailsOnce
    <3>2. CASE ~twice(answer)
      BY <1>1, <1>2, <2>3, <3>2 DEF FailsOnce
    <3> QED
      BY <3>1, <3>2
  <2> HIDE DEF caught, well
  <2>5. PICK code : code = KeyCode(answer)
    OBVIOUS
  <2> QED
    BY <1>2, <2>1, <2>2, <2>4, <2>5
<1>4. /\ keyCall' \in [KeyCalls -> KeyCall]
      /\ \A o \in KeyCalls \ {c} : keyCall'[o] = keyCall[o]
      /\ keyCall'[c].at # "sent" /\ keyCall'[c].lease = NoHolder /\ ~keyCall'[c].held
      /\ keyCall'[c].code = code
  <2>1. PICK at \in {"try", "ended"} :
          keyCall' = [keyCall EXCEPT ![c].held = FALSE, ![c].lease = NoHolder, ![c].code = code, ![c].at = at]
    BY <1>3
  <2> QED
    BY <1>1, <1>3, <2>1 DEF KeyCall
<1>5. \A k \in Keys : Released(pool, key)[k].disabled = pool[k].disabled
  BY DisabledStays
<1>6. \A k \in Keys : pool[k].disabled => Failed(pool, key, code)[k].disabled
  BY DisabledStays
<1>7. Failed(pool, key, "AUTHENTICATION_FAILED")[key].disabled
  BY DisabledStays
<1>8. /\ Released(pool, key) \in Pool
      /\ \A k \in Keys : Released(pool, key)[k].inFlight =
           IF k = key THEN OneLess(pool[k].inFlight) ELSE pool[k].inFlight
  BY PoolMoves
<1>9. /\ Failed(pool, key, code) \in Pool
      /\ \A k \in Keys : Failed(pool, key, code)[k].inFlight =
           IF k = key THEN OneLess(pool[k].inFlight) ELSE pool[k].inFlight
  BY PoolMoves
<1>10. /\ keyPool' \in Pool
       /\ \A k \in Keys : keyPool'[k].inFlight =
            IF k = key THEN OneLess(keyPool[k].inFlight) ELSE keyPool[k].inFlight
  BY <1>2, <1>3, <1>8, <1>9
<1>11. CountedBy(keyCall, keyPool)'
  <2>1. CountedBy(keyCall, keyPool) /\ keyCall[c].lease = key
    BY <1>2 DEF KeyInv
  <2> QED
    BY <1>2, <1>4, <1>10, <2>1, TakersMove
<1>12. SomeDisabled(keyPool) => SomeDisabled(keyPool)'
  BY <1>2, <1>3, <1>5, <1>6 DEF SomeDisabled
<1>13. code = "AUTHENTICATION_FAILED" => SomeDisabled(keyPool)'
  BY <1>3, <1>7 DEF SomeDisabled
<1> QED
  BY <1>4, <1>10, <1>11, <1>12, <1>13 DEF KeyInv

LEMMA CoolsKeeps ==
  ASSUME KeyInv, NEW key \in Keys, CredentialCools(key)
  PROVE  KeyInv'
<1>1. keyPool \in Pool /\ keyPool' = CooledDown(keyPool, key) /\ keyCall' = keyCall
  BY DEF KeyInv, CredentialCools
<1>2. keyPool' \in Pool /\ \A k \in Keys : keyPool'[k].inFlight = keyPool[k].inFlight
  BY <1>1, PoolMoves
<1>3. \A k \in Keys : keyPool'[k].disabled = keyPool[k].disabled
  BY <1>1, DisabledStays
<1> QED
  BY <1>1, <1>2, <1>3 DEF KeyInv, CountedBy, Takers, SomeDisabled

LEMMA KeyStep ==
  ASSUME KeyInv, KeyNext
  PROVE  KeyInv'
BY TakesKeeps, GivesUpKeeps, AnsweredKeeps, CoolsKeeps DEF KeyNext

LEMMA KeyPromise ==
  ASSUME KeyInv
  PROVE  HoldersAreCounted
<1>1. \A c \in KeyCalls : StateForCode(keyCall[c].code) = "AUTHENTICATION_FAILED"
                            => keyCall[c].code = "AUTHENTICATION_FAILED"
  BY DEF StateForCode
<1> QED
  BY <1>1 DEF HoldersAreCounted, KeyInv, CountedBy, Takers, SomeDisabled

LEMMA KeyStutter ==
  ASSUME KeyInv, UNCHANGED keyVars
  PROVE  KeyInv'
BY DEF keyVars, KeyInv, CountedBy, Takers, SomeDisabled


-----------------------------------------------------------------------------
(* What a step may do to a call that waits, and to one that is under way.  *)

\* drain() ran on the queue as it was, behind which at most one more item was put.
DrainedFrom(g, calls) ==
  /\ g \in Gate /\ calls \in Calls /\ GateAgrees(g, calls)
  /\ \A i \in DOMAIN gate.queue : i \in DOMAIN g.queue /\ g.queue[i] = gate.queue[i]
  /\ \A r \in Requests : \/ calls[r] = req[r]
                         \/ calls[r].pc = "queued" /\ req[r].pc = "prompt"
                         \/ calls[r].pc \notin AtGate
  /\ req' = Starts(calls, g)

Drains == \E g, calls : DrainedFrom(g, calls)

Rotates ==
  \E r \in Requests :
    /\ req[r].pc = "call" /\ IsKeyRecoverableProviderFailure(req'[r].code)
    /\ \A q \in Requests \ {r} : req'[q] = req[q]

LeavesThem == \A r \in Requests : req'[r] = req[r] \/ req[r].pc \notin {"queued", "call"}

LEMMA LeavingDrains ==
  ASSUME RouterInv, NEW r \in Requests, req[r].pc \in InGate, NEW next \in Call, Chosen(next),
         Asked(next), next.pc \notin AtGate, Leave(r, next)
  PROVE  Drains
<1> DEFINE calls == [req EXCEPT ![r] = next]
           g == Decrement(gate, Provider(r), req[r].capability)
<1>1. /\ calls \in Calls /\ calls[r] = next /\ \A q \in Requests \ {r} : calls[q] = req[q]
  BY OneCall DEF RouterInv
<1>2. req' = Starts(calls, g)
  BY DEF Leave
<1>3. g.queue = gate.queue
  BY DEF Decrement, RouterInv, GateKept, Gate
<1> HIDE DEF calls
<1>4. g \in Gate /\ GateAgrees(g, calls)
  BY <1>1, LeftAgrees DEF RouterInv, GateKept, Provider, AtGate
<1> HIDE DEF g
<1>5. DrainedFrom(g, calls)
  BY <1>1, <1>2, <1>3, <1>4 DEF DrainedFrom
<1> QED
  BY <1>5 DEF Drains

LEMMA FailingDrains ==
  ASSUME RouterInv, NEW r \in Requests, req[r].pc \in InGate, Leave(r, Recording(r))
  PROVE  Drains
<1>1. /\ Recording(r) \in Call /\ Chosen(Recording(r)) /\ Asked(Recording(r))
      /\ Recording(r).pc \notin AtGate
  BY RecordingIs DEF RouterInv, Begun, InGate, AtGate
<1> QED
  BY <1>1, LeavingDrains

LEMMA ReturningDrains ==
  ASSUME RouterInv, NEW r \in Requests, NEW valid \in BOOLEAN, CallReturns(r, valid)
  PROVE  Drains
<1> DEFINE to == IF valid THEN "record_valid" ELSE "record_invalid"
           next == [req[r] EXCEPT !.pc = to, !.key = NoKey, !.turns = 0, !.code = "none"]
<1>1. req \in Calls /\ req[r].pc = "call" /\ Leave(r, next)
  BY DEF RouterInv, CallReturns
<1>2. req[r] \in Call /\ req[r].capability \in Capabilities /\ req[r].selected # << >>
  BY <1>1, AtWork DEF Begun, InGate
<1>3. /\ next \in Call /\ next.pc \in RecordPcs /\ next.capability = req[r].capability
      /\ next.selected = req[r].selected
  BY <1>2 DEF Call, Begun, RecordPcs
<1> HIDE DEF next
<1>4. Chosen(next) /\ Asked(next) /\ next.pc \notin AtGate
  BY <1>2, <1>3 DEF Chosen, Asked, Asking, RecordPcs, AtGate, InGate
<1> QED
  BY <1>1, <1>3, <1>4, LeavingDrains DEF InGate

LEMMA QueueingDrains ==
  ASSUME RouterInv, NEW r \in Requests, PromptFound(r)
  PROVE  Drains
<1> DEFINE calls == [req EXCEPT ![r].pc = "queued"]
           g == Queued(gate, ItemOf(req, r))
<1>1. g \in Gate /\ calls \in Calls /\ GateAgrees(g, calls) /\ req' = Starts(calls, g)
  BY PromptFoundKeeps
<1>2. \A i \in DOMAIN gate.queue : i \in DOMAIN g.queue /\ g.queue[i] = gate.queue[i]
  <2>1. gate \in Gate
    BY DEF RouterInv, GateKept
  <2>2. PICK q \in Seq(Item) : q = gate.queue
    BY <2>1 DEF Gate
  <2>3. g.queue = Append(q, ItemOf(req, r))
    BY <2>1, <2>2 DEF Queued, Gate
  <2> QED
    BY <2>2, <2>3
<1>3. \A q \in Requests : \/ calls[q] = req[q]
                          \/ calls[q].pc = "queued" /\ req[q].pc = "prompt"
  BY DEF PromptFound, RouterInv, Calls, Call
<1> HIDE DEF calls, g
<1>4. DrainedFrom(g, calls)
  BY <1>1, <1>2, <1>3 DEF DrainedFrom
<1> QED
  BY <1>4 DEF Drains

LEMMA StepKinds ==
  ASSUME RouterInv, Next
  PROVE  Drains \/ Rotates \/ LeavesThem
<1>1. req \in [Requests -> Call]
  BY DEF RouterInv, Calls
<1>2. ASSUME NEW r \in Requests, Works(r) PROVE Drains \/ Rotates \/ LeavesThem
  <2>1. CASE ReadCached(r) \/ AskSnapshot(r) \/ Select(r)
    BY <1>1, <2>1 DEF ReadCached, AskSnapshot, Select, LeavesThem
  <2>2. CASE PromptFound(r)
    BY <2>2, QueueingDrains
  <2>3. CASE PromptMissing(r) \/ PromptFails(r)
    BY <1>1, <2>3 DEF PromptMissing, PromptFails, LeavesThem
  <2>4. CASE Acquire(r)
    BY <1>1, <2>4 DEF Acquire, LeavesThem
  <2>5. CASE NoCredential(r)
    BY <2>5, FailingDrains DEF NoCredential, Fails, InGate
  <2>6. ASSUME NEW code, CallFails(r, code) PROVE Drains \/ Rotates
    <3>1. CASE Pooled(Provider(r)) /\ IsKeyRecoverableProviderFailure(code)
      <4>1. req'[r].code = code /\ \A q \in Requests \ {r} : req'[q] = req[q]
        BY <2>6, <3>1, RotationKeeps
      <4> QED
        BY <2>6, <3>1, <4>1 DEF CallFails, Rotates
    <3>2. CASE ~(Pooled(Provider(r)) /\ IsKeyRecoverableProviderFailure(code))
      BY <2>6, <3>2, FailingDrains DEF CallFails, Fails, InGate
    <3> QED
      BY <3>1, <3>2
  <2>7. ASSUME NEW valid \in BOOLEAN, CallReturns(r, valid) PROVE Drains
    BY <2>7, ReturningDrains
  <2>8. CASE Record(r) \/ RecordFails(r)
    BY <1>1, <2>8 DEF Record, RecordFails, RecordPcs, LeavesThem
  <2> QED
    BY <1>2, <2>1, <2>2, <2>3, <2>4, <2>5, <2>6, <2>7, <2>8 DEF Works, CallEnds
<1>3. ASSUME NEW r \in Requests, NEW c \in Capabilities, Ask(r, c) PROVE LeavesThem
  BY <1>1, <1>3 DEF Ask, LeavesThem
<1>4. CASE Aggregate \/ CacheExpires \/ ProbeEnds
  BY <1>4 DEF Aggregate, CacheExpires, ProbeEnds, LeavesThem
<1>5. CASE SnapshotArrives \/ SnapshotFails
  BY <1>1, <1>5 DEF SnapshotArrives, SnapshotFails, Waits, LeavesThem
<1>6. CASE \/ \E key \in circuit : CircuitCloses(key)
           \/ \E p \in DOMAIN pools : ProbeStarts(p) \/ \E key \in Keys : KeyCools(p, key)
  BY <1>6 DEF CircuitCloses, ProbeStarts, KeyCools, LeavesThem
<1> QED
  BY <1>2, <1>3, <1>4, <1>5, <1>6 DEF Next

\* A pass of drain() that starts an item starts all of its class before it: the
\* room for the later one was there, and more of it, when they were reached.
LEMMA DrainInOrder ==
  ASSUME NEW g \in Gate, NEW i \in DOMAIN g.queue, NEW j \in DOMAIN g.queue, i < j,
         g.queue[i].provider = g.queue[j].provider,
         g.queue[i].capability = g.queue[j].capability, j \in Startable(g)
  PROVE  i \in Startable(g)
<1> DEFINE S == Startable(g)
           T(n) == {k \in S : k < n}
<1>1. S \in SUBSET DOMAIN g.queue /\ Passes(g, S, Len(g.queue))
  BY StartableIs
<1>2. Len(g.queue) \in Nat /\ i \in 1..Len(g.queue) /\ j \in 1..Len(g.queue)
      /\ g.queue[i] \in Item /\ g.queue[j] \in Item
  BY DEF Gate
<1> HIDE DEF S
<1>3. \A n \in {i, j} : n \in S <=> CanStart(Increment(g, T(n)), g.queue[n])
  BY <1>1, <1>2 DEF Passes
<1>4. CanStart(Increment(g, T(j)), g.queue[j])
  BY <1>3 DEF S
<1>5. T(j) \in SUBSET DOMAIN g.queue /\ T(i) \in SUBSET T(j)
  BY <1>1, <1>2
<1>6. ItemKey(g.queue[j]) = ItemKey(g.queue[i])
  BY DEF ItemKey
<1> HIDE DEF T
<1>7. CanStart(Increment(g, T(i)), g.queue[i])
  BY <1>2, <1>4, <1>5, <1>6, RoomShrinks
<1> QED
  BY <1>3, <1>7 DEF S

FirstComesFirst ==
  \A i, j \in DOMAIN gate.queue :
    (/\ i < j
     /\ gate.queue[i].provider = gate.queue[j].provider
     /\ gate.queue[i].capability = gate.queue[j].capability
     /\ req'[gate.queue[j].id].pc # "queued")
    => req'[gate.queue[i].id].pc # "queued"

LEMMA StepInOrder ==
  ASSUME RouterInv, Next
  PROVE  FirstComesFirst
<1>1. \A i \in DOMAIN gate.queue : gate.queue[i].id \in Requests /\ req[gate.queue[i].id].pc = "queued"
  <2>1. ASSUME NEW i \in DOMAIN gate.queue
        PROVE  gate.queue[i].id \in Requests /\ req[gate.queue[i].id].pc = "queued"
    <3>1. gate \in Gate /\ QueueAgreesWith(gate, req)
      BY DEF RouterInv, GateKept, GateAgrees
    <3>2. gate.queue[i] \in Item
      BY <3>1 DEF Gate
    <3> QED
      BY <3>1, <3>2 DEF QueueAgreesWith, Item
  <2> QED
    BY <2>1
<1>2. CASE Rotates \/ LeavesThem
  <2>1. \A r \in Requests : req[r].pc = "queued" => req'[r] = req[r]
    BY <1>2 DEF Rotates, LeavesThem
  <2> QED
    BY <1>1, <2>1 DEF FirstComesFirst
<1>3. CASE Drains
  <2>1. PICK g, calls : DrainedFrom(g, calls)
    BY <1>3 DEF Drains
  <2>2. /\ g \in Gate /\ calls \in Calls /\ QueueAgreesWith(g, calls) /\ Distinct(g)
        /\ req' = Starts(calls, g)
    BY <2>1 DEF DrainedFrom, GateAgrees, QueueAgreesWith
  <2>3. \A r \in Requests : r \in StartedBy(g) <=> Starts(calls, g)[r].pc # "queued" /\ calls[r].pc = "queued"
    <3>1. ASSUME NEW r \in Requests
          PROVE  r \in StartedBy(g) <=> Starts(calls, g)[r].pc # "queued" /\ calls[r].pc = "queued"
      BY <2>2, StartsIs
    <3> QED
      BY <3>1
  <2>4. Startable(g) \in SUBSET DOMAIN g.queue
    BY <2>2, StartableIs
  <2>5. ASSUME NEW i \in DOMAIN gate.queue
        PROVE  /\ i \in DOMAIN g.queue /\ g.queue[i] = gate.queue[i]
               /\ gate.queue[i].id \in Requests
               /\ req'[gate.queue[i].id].pc # "queued" <=> i \in Startable(g)
    <3>1. i \in DOMAIN g.queue /\ g.queue[i] = gate.queue[i] /\ gate.queue[i].id \in Requests
      BY <1>1, <2>1 DEF DrainedFrom
    <3>2. calls[g.queue[i].id].pc = "queued"
      BY <2>2, <3>1 DEF QueueAgreesWith
    <3>3. g.queue[i].id \in StartedBy(g) <=> i \in Startable(g)
      BY <2>2, <2>4, <3>1 DEF StartedBy, Distinct
    <3> QED
      BY <2>2, <2>3, <3>1, <3>2, <3>3
  <2> QED
    BY <2>2, <2>5, DrainInOrder DEF FirstComesFirst
<1> QED
  BY <1>2, <1>3, StepKinds

-----------------------------------------------------------------------------
(* What the configuration promises: an administrator's override of a       *)
(* publisher.                                                              *)

Publisher == [known : BOOLEAN, review : Reviews \cup {"none"}, overrides : Seq(Overriders)]
Override ==
  [at : {"find", "save", "refused", "done"}, copy : Publisher, review : Reviews \cup {"none"},
   overtaken : BOOLEAN]

Saved == {a \in Overriders : override[a].at = "done"}

SavedSays == \E a \in Saved : publisher.review = override[a].review

LastDecides ==
  LET last == override[publisher.overrides[Len(publisher.overrides)]]
  IN /\ publisher.known /\ last.at = "done"
     /\ publisher.review # last.review =>
          last.overtaken /\ last.review = last.copy.review /\ SavedSays

\* A publisher with an override is known, its review is one that an override asked for,
\* and a copy that no other override was saved over is what is stored.
PublisherInv ==
  /\ publisher \in Publisher /\ override \in [Overriders -> Override]
  /\ \A a \in Overriders : override[a].at = "save" =>
       publisher.known /\ (~override[a].overtaken => override[a].copy = publisher)
  /\ \A a \in Overriders : override[a].overtaken => Saved # {}
  /\ Saved # {} => publisher.overrides # << >> /\ SavedSays
  /\ publisher.overrides # << >> => LastDecides

LEMMA PublisherStart ==
  ASSUME PublisherInit
  PROVE  PublisherInv
<1>1. Unknown \in Publisher /\ Unknown.overrides = << >>
  BY DEF Unknown, Publisher
<1>2. override \in [Overriders -> Override] /\ Saved = {} /\ \A a \in Overriders : ~override[a].overtaken
  BY <1>1 DEF PublisherInit, Override, Saved
<1> QED
  BY <1>1, <1>2 DEF PublisherInit, PublisherInv

LEMMA LastOverrider ==
  ASSUME PublisherInv, publisher.overrides # << >>
  PROVE  publisher.overrides[Len(publisher.overrides)] \in Overriders
<1>1. publisher.overrides \in Seq(Overriders)
  BY DEF PublisherInv, Publisher
<1>2. Len(publisher.overrides) \in DOMAIN publisher.overrides
  BY <1>1
<1> QED
  BY <1>1, <1>2

LEMMA PublisherStep ==
  ASSUME PublisherInv, PublisherNext
  PROVE  PublisherInv'
<1>1. publisher \in Publisher /\ override \in [Overriders -> Override]
  BY DEF PublisherInv
<1>2. ASSUME NEW d \in Discoveries, EnsureDiscovered(d) PROVE PublisherInv'
  <2>1. override' = override /\ publisher' = SetOnInsertOnly(publisher) /\ Saved' = Saved
    BY <1>2 DEF EnsureDiscovered, Saved
  <2>2. CASE publisher.known
    <3>1. publisher' = publisher
      BY <2>1, <2>2 DEF SetOnInsertOnly
    <3> QED
      BY <2>1, <3>1 DEF PublisherInv, LastDecides, SavedSays
  <2>3. CASE ~publisher.known
    <3>1. publisher' = Discovered /\ Discovered \in Publisher /\ Discovered.overrides = << >>
      BY <2>1, <2>3 DEF SetOnInsertOnly, Discovered, Publisher, Reviews
    <3>2. publisher.overrides = << >>
      BY <2>3 DEF PublisherInv, LastDecides
    <3>3. Saved = {} /\ \A a \in Overriders : override[a].at # "save"
      BY <2>3, <3>2 DEF PublisherInv
    <3> QED
      BY <1>1, <2>1, <3>1, <3>3 DEF PublisherInv
  <2> QED
    BY <2>2, <2>3
<1>3. ASSUME NEW a \in Overriders, FindPublisher(a) PROVE PublisherInv'
  <2>1. PICK review \in Reviews :
          override' = [override EXCEPT ![a] = [at |-> IF publisher.known THEN "save" ELSE "refused",
                                               copy |-> publisher, review |-> review, overtaken |-> FALSE]]
    BY <1>3 DEF FindPublisher
  <2>2. publisher' = publisher /\ override[a].at = "find"
    BY <1>3 DEF FindPublisher
  <2>3. /\ override' \in [Overriders -> Override]
        /\ \A b \in Overriders \ {a} : override'[b] = override[b]
        /\ override'[a].at \in {"save", "refused"} /\ override'[a].copy = publisher
        /\ ~override'[a].overtaken
        /\ override'[a].at = "save" => publisher.known
    BY <1>1, <2>1 DEF Override
  <2>4. Saved' = Saved /\ a \notin Saved
    BY <2>2, <2>3 DEF Saved
  <2>5. SavedSays => SavedSays'
    BY <2>2, <2>3, <2>4 DEF SavedSays, Saved
  <2>6. publisher.overrides # << >> => LastDecides'
    <3>1. SUFFICES ASSUME publisher.overrides # << >> PROVE LastDecides'
      OBVIOUS
    <3> DEFINE n == publisher.overrides[Len(publisher.overrides)]
    <3>2. n \in Overriders /\ override[n].at = "done"
      BY <3>1, LastOverrider DEF PublisherInv, LastDecides
    <3>3. override'[n] = override[n]
      BY <2>2, <2>3, <3>2
    <3> QED
      BY <2>2, <2>5, <3>1, <3>3 DEF PublisherInv, LastDecides
  <2>7. \A b \in Overriders : override'[b].at = "save" =>
          publisher.known /\ (~override'[b].overtaken => override'[b].copy = publisher)
    BY <2>3 DEF PublisherInv
  <2> QED
    BY <1>1, <2>2, <2>3, <2>4, <2>5, <2>6, <2>7 DEF PublisherInv
<1>4. ASSUME NEW a \in Overriders, SaveOverride(a) PROVE PublisherInv'
  <2>1. PICK old \in Seq(Overriders) : old = override[a].copy.overrides
    BY <1>1 DEF Override, Publisher
  <2>2. PICK review \in Reviews \cup {"none"} :
          review = IF override[a].review = override[a].copy.review THEN publisher.review ELSE override[a].review
    BY <1>1 DEF Override, Publisher
  <2>3. /\ publisher' = [publisher EXCEPT !.review = review, !.overrides = Append(old, a)]
        /\ override[a].at = "save"
        /\ override' = [b \in Overriders |->
             IF b = a THEN [override[b] EXCEPT !.at = "done"]
             ELSE [override[b] EXCEPT !.overtaken = @ \/ override[b].at = "save"]]
    BY <1>4, <2>1, <2>2 DEF SaveOverride
  <2>4. /\ Append(old, a) \in Seq(Overriders) /\ Append(old, a) # << >>
        /\ Append(old, a)[Len(Append(old, a))] = a
    <3>1. Len(Append(old, a)) = Len(old) + 1 /\ Len(old) \in Nat
      BY <2>1
    <3>2. Append(old, a) # << >>
      BY <3>1
    <3> QED
      BY <2>1, <3>1, <3>2
  <2>5. /\ publisher' \in Publisher /\ publisher'.review = review
        /\ publisher'.overrides = Append(old, a) /\ publisher'.known = publisher.known
    BY <1>1, <2>2, <2>3, <2>4 DEF Publisher
  <2>6. /\ override' \in [Overriders -> Override]
        /\ override'[a].at = "done" /\ override'[a].overtaken = override[a].overtaken
        /\ \A b \in Overriders : /\ override'[b].review = override[b].review
                                 /\ override'[b].copy = override[b].copy
                                 /\ b # a => override'[b].at = override[b].at
                                 /\ b # a /\ override[b].at = "save" => override'[b].overtaken
    BY <1>1, <2>3 DEF Override
  <2>7. publisher.known /\ (~override[a].overtaken => override[a].copy = publisher)
    BY <2>3 DEF PublisherInv
  <2>8. Saved' = Saved \cup {a}
    BY <2>6 DEF Saved
  <2>9. SavedSays'
    <3>1. CASE review = override[a].review
      BY <2>5, <2>6, <2>8, <3>1 DEF SavedSays
    <3>2. CASE review # override[a].review
      <4>1. review = publisher.review /\ override[a].review = override[a].copy.review
        BY <2>2, <3>2
      <4>2. override[a].overtaken
        BY <2>7, <3>2, <4>1
      <4>3. CASE Saved # {}
        <5>1. PICK b \in Saved : publisher.review = override[b].review
          BY <4>3 DEF PublisherInv, SavedSays
        <5> QED
          BY <2>5, <2>6, <2>8, <4>1, <5>1 DEF SavedSays, Saved
      <4>4. CASE Saved = {}
        BY <4>2, <4>4 DEF PublisherInv
      <4> QED
        BY <4>3, <4>4
    <3> QED
      BY <3>1, <3>2
  <2>10. LastDecides'
    <3>1. publisher'.overrides[Len(publisher'.overrides)] = a
      BY <2>4, <2>5
    <3>2. review # override[a].review =>
            override[a].overtaken /\ override[a].review = override[a].copy.review
      BY <2>2, <2>7
    <3> QED
      BY <2>5, <2>6, <2>7, <2>9, <3>1, <3>2 DEF LastDecides
  <2>11. \A b \in Overriders : override'[b].at = "save" => publisher'.known /\ override'[b].overtaken
    BY <2>5, <2>6, <2>7
  <2>12. Saved' # {} /\ publisher'.overrides # << >>
    BY <2>4, <2>5, <2>8
  <2> QED
    BY <2>5, <2>6, <2>9, <2>10, <2>11, <2>12 DEF PublisherInv
<1> QED
  BY <1>2, <1>3, <1>4 DEF PublisherNext

LEMMA PublisherPromise ==
  ASSUME PublisherInv
  PROVE  OverrideStands
BY DEF PublisherInv, LastDecides, SavedSays, Saved, OverrideStands

LEMMA PublisherStutter ==
  ASSUME PublisherInv, UNCHANGED publisherVars
  PROVE  PublisherInv'
BY DEF publisherVars, PublisherInv, LastDecides, SavedSays, Saved

-----------------------------------------------------------------------------
(* The prompt published last.                                              *)

Prompt ==
  [status : {"none", "DRAFT", "PUBLISHED", "DEPRECATED"}, schema : Nat, system : BOOLEAN, providers : SUBSET Nat]
Edit ==
  [at : {"free", "create", "deprecate", "save"}, version : Nat,
   status : {"none", "DRAFT", "PUBLISHED", "DEPRECATED"}]

\* Nothing is published but what was chosen, or published or seeded since, and what was
\* chosen is published, or a request is left that writes it, or it is lost.
ChosenStands ==
  chosen # 0 =>
    /\ \A v \in PromptVersions : prompts[v].status = "PUBLISHED" => v \in {chosen} \cup since
    /\ \/ lost \/ prompts[chosen].status = "PUBLISHED"
       \/ \E a \in Admins : admin[a].at = "save" /\ WritesStatus(a) /\ admin[a].version = chosen

PromptInv ==
  /\ prompts \in [PromptVersions -> Prompt] /\ admin \in [Admins -> Edit]
  /\ starting \in [Releases -> SUBSET (0..MaxPrompts)] /\ chosen \in PromptVersions \cup {0}
  /\ \A a \in Admins : Publishing(a) => admin[a].version \in PromptVersions
  /\ ChosenStands

LEMMA PromptStart ==
  ASSUME PromptInit
  PROVE  PromptInv
<1>1. NoPrompt \in Prompt /\ NoEdit \in Edit /\ NoEdit.at = "free"
  BY DEF NoPrompt, NoEdit, Prompt, Edit
<1>2. \A r \in Releases : 0..r \in SUBSET (0..MaxPrompts)
  BY PromptAssumption
<1> QED
  BY <1>1, <1>2 DEF PromptInit, PromptInv, ChosenStands, Publishing

\* Steps that change no version that exists and leave the requests that publish alone.
LEMMA PromptsGrow ==
  ASSUME PromptInv, prompts' \in [PromptVersions -> Prompt], admin' \in [Admins -> Edit],
         starting' \in [Releases -> SUBSET (0..MaxPrompts)],
         chosen' = chosen, lost' = lost, since \subseteq since',
         \A v \in PromptVersions : \/ prompts'[v].status = prompts[v].status
                                   \/ /\ prompts[v].status = "none"
                                      /\ prompts'[v].status = "PUBLISHED" => v \in since',
         \A a \in Admins : admin'[a] = admin[a] \/ {admin[a].at, admin'[a].at} \cap {"deprecate", "save"} = {}
  PROVE  PromptInv'
<1>1. \A a \in Admins : /\ Publishing(a)' => admin'[a] = admin[a] /\ Publishing(a)
                        /\ admin[a].at = "save" => admin'[a] = admin[a]
  BY DEF Publishing
<1>2. \A v \in PromptVersions : /\ prompts[v].status = "PUBLISHED" => prompts'[v].status = "PUBLISHED"
                                /\ prompts'[v].status = "PUBLISHED" => prompts[v].status = "PUBLISHED" \/ v \in since'
  OBVIOUS
<1>3. ChosenStands'
  BY <1>1, <1>2 DEF PromptInv, ChosenStands, WritesStatus
<1> QED
  BY <1>1, <1>3 DEF PromptInv

LEMMA SeedKeeps ==
  ASSUME PromptInv, NEW r \in Releases, SeedPrompt(r)
  PROVE  PromptInv'
<1>1. PICK v \in starting[r] \ {0} :
        /\ starting' = [starting EXCEPT ![r] = @ \ {v}]
        /\ IF PromptExists(v) THEN UNCHANGED <<prompts, since>>
           ELSE /\ prompts' = [prompts EXCEPT ![v] =
                     [status |-> "PUBLISHED", schema |-> v, system |-> TRUE, providers |-> 1..r]]
                /\ since' = since \cup {v}
  BY DEF SeedPrompt
<1>2. v \in PromptVersions /\ starting' \in [Releases -> SUBSET (0..MaxPrompts)]
  BY <1>1, PromptAssumption DEF PromptInv, PromptVersions
<1>3. admin' = admin /\ chosen' = chosen /\ lost' = lost
  BY DEF SeedPrompt
<1>4. [status |-> "PUBLISHED", schema |-> v, system |-> TRUE, providers |-> 1..r] \in Prompt
  BY <1>2, PromptAssumption DEF Prompt, PromptVersions
<1>5. prompts' \in [PromptVersions -> Prompt]
  BY <1>1, <1>4 DEF PromptInv
<1>6. \A w \in PromptVersions : \/ prompts'[w].status = prompts[w].status
                                \/ /\ prompts[w].status = "none"
                                   /\ w \in since' /\ prompts'[w].status = "PUBLISHED"
  BY <1>1, <1>2 DEF PromptInv, PromptExists
<1>7. since \subseteq since'
  BY <1>1
<1> QED
  BY <1>2, <1>3, <1>5, <1>6, <1>7, PromptsGrow DEF PromptInv

LEMMA ProvidersKeep ==
  ASSUME PromptInv, NEW r \in Releases, AddProviders(r)
  PROVE  PromptInv'
<1>1. /\ prompts' = [v \in PromptVersions |->
           IF prompts[v].system THEN [prompts[v] EXCEPT !.providers = @ \cup 1..r] ELSE prompts[v]]
      /\ starting' = [starting EXCEPT ![r] = {}]
      /\ admin' = admin /\ chosen' = chosen /\ lost' = lost /\ since' = since
  BY DEF AddProviders
<1>2. ASSUME NEW v \in PromptVersions
      PROVE  prompts'[v] \in Prompt /\ prompts'[v].status = prompts[v].status
  <2>1. prompts[v] \in Prompt /\ 1..r \in SUBSET Nat
    BY PromptAssumption DEF PromptInv
  <2>2. [prompts[v] EXCEPT !.providers = @ \cup 1..r] \in Prompt
        /\ [prompts[v] EXCEPT !.providers = @ \cup 1..r].status = prompts[v].status
    BY <2>1 DEF Prompt
  <2> QED
    BY <1>1, <2>1, <2>2
<1>3. prompts' \in [PromptVersions -> Prompt] /\ starting' \in [Releases -> SUBSET (0..MaxPrompts)]
  BY <1>1, <1>2 DEF PromptInv
<1> QED
  BY <1>1, <1>2, <1>3, PromptsGrow DEF PromptInv

LEMMA WritingKeeps ==
  ASSUME PromptInv, NEW a \in Admins, ReadLatest(a) \/ CreatePromptVersion(a)
  PROVE  PromptInv'
<1>1. prompts \in [PromptVersions -> Prompt] /\ admin \in [Admins -> Edit]
  BY DEF PromptInv
<1>2. CASE ReadLatest(a)
  <2> DEFINE vs == {v \in PromptVersions : PromptExists(v)}
  <2>1. NewestPrompt(vs) \in Nat
    <3>1. CASE vs = {}
      BY <3>1 DEF NewestPrompt
    <3>2. CASE vs # {}
      <4>1. \E v \in vs : \A w \in vs : w <= v
        BY <3>2, PromptAssumption, LastExists DEF PromptVersions
      <4>2. NewestPrompt(vs) \in vs
        BY <3>2, <4>1 DEF NewestPrompt
      <4> QED
        BY <4>2, PromptAssumption DEF PromptVersions
    <3> QED
      BY <3>1, <3>2
  <2> HIDE DEF vs
  <2>2. PICK n \in Nat : n = NewestPrompt(vs) + 1
    BY <2>1
  <2>3. admin' = [admin EXCEPT ![a] = [NoEdit EXCEPT !.at = "create", !.version = n]] /\ admin[a].at = "free"
    BY <1>2, <2>2 DEF ReadLatest, vs
  <2>4. [NoEdit EXCEPT !.at = "create", !.version = n] \in Edit
        /\ [NoEdit EXCEPT !.at = "create", !.version = n].at = "create"
    BY <2>2 DEF NoEdit, Edit
  <2>5. admin' \in [Admins -> Edit]
        /\ \A b \in Admins : admin'[b] = admin[b] \/ {admin[b].at, admin'[b].at} \cap {"deprecate", "save"} = {}
    BY <1>1, <2>3, <2>4
  <2>6. UNCHANGED <<prompts, starting, chosen, since, lost>>
    BY <1>2 DEF ReadLatest
  <2> QED
    BY <1>1, <2>5, <2>6, PromptsGrow DEF PromptInv
<1>3. CASE CreatePromptVersion(a)
  <2>1. admin[a].at = "create" /\ admin' = [admin EXCEPT ![a] = NoEdit]
        /\ UNCHANGED <<starting, chosen, since, lost>>
    BY <1>3 DEF CreatePromptVersion
  <2>2. admin' \in [Admins -> Edit]
        /\ \A b \in Admins : admin'[b] = admin[b] \/ {admin[b].at, admin'[b].at} \cap {"deprecate", "save"} = {}
    BY <1>1, <2>1 DEF NoEdit, Edit
  <2>3. /\ prompts' \in [PromptVersions -> Prompt]
        /\ \A v \in PromptVersions : \/ prompts'[v].status = prompts[v].status
                                     \/ prompts[v].status = "none" /\ prompts'[v].status = "DRAFT"
    <3>1. CASE admin[a].version \in PromptVersions /\ ~PromptExists(admin[a].version)
      <4>1. PICK schema \in Releases :
              prompts' = [prompts EXCEPT ![admin[a].version] =
                [status |-> "DRAFT", schema |-> schema, system |-> FALSE, providers |-> {1}]]
        BY <1>3, <3>1 DEF CreatePromptVersion
      <4>2. [status |-> "DRAFT", schema |-> schema, system |-> FALSE, providers |-> {1}] \in Prompt
        BY PromptAssumption DEF Prompt
      <4> QED
        BY <1>1, <3>1, <4>1, <4>2 DEF PromptExists
    <3>2. CASE ~(admin[a].version \in PromptVersions /\ ~PromptExists(admin[a].version))
      BY <1>1, <1>3, <3>2 DEF CreatePromptVersion
    <3> QED
      BY <3>1, <3>2
  <2> QED
    BY <2>1, <2>2, <2>3, PromptsGrow DEF PromptInv
<1> QED
  BY <1>2, <1>3

LEMMA ReadPromptKeeps ==
  ASSUME PromptInv, NEW a \in Admins, ReadPrompt(a)
  PROVE  PromptInv'
<1>1. PICK v \in PromptVersions :
        admin' = [admin EXCEPT ![a] = [at |-> "deprecate", version |-> v, status |-> prompts[v].status]]
  BY DEF ReadPrompt
<1>2. admin[a].at = "free" /\ UNCHANGED <<prompts, starting, chosen, since, lost>>
  BY DEF ReadPrompt
<1>3. prompts \in [PromptVersions -> Prompt] /\ admin \in [Admins -> Edit]
  BY DEF PromptInv
<1>4. [at |-> "deprecate", version |-> v, status |-> prompts[v].status] \in Edit
  BY <1>3, PromptAssumption DEF Edit, Prompt, PromptVersions
<1>5. /\ admin' \in [Admins -> Edit] /\ \A b \in Admins \ {a} : admin'[b] = admin[b]
      /\ admin'[a].at = "deprecate" /\ admin'[a].version = v
  BY <1>1, <1>3, <1>4
<1>6. ChosenStands'
  BY <1>2, <1>5 DEF PromptInv, ChosenStands, WritesStatus
<1> QED
  BY <1>2, <1>3, <1>5, <1>6 DEF PromptInv, Publishing

LEMMA DeprecateKeeps ==
  ASSUME PromptInv, NEW a \in Admins, DeprecateOthers(a)
  PROVE  PromptInv'
<1>1. PICK mine \in PromptVersions : mine = admin[a].version
  BY DEF DeprecateOthers, PromptInv, Publishing
<1>2. /\ admin[a].at = "deprecate" /\ admin' = [admin EXCEPT ![a].at = "save"]
      /\ prompts' = [v \in PromptVersions |->
           IF v \in PublishedOthers(mine) THEN [prompts[v] EXCEPT !.status = "DEPRECATED"] ELSE prompts[v]]
      /\ chosen' = mine /\ starting' = starting
      /\ lost' \/ WritesStatus(a) \/ prompts[mine].status = "PUBLISHED"
  BY <1>1, Zenon DEF DeprecateOthers
<1>3. prompts \in [PromptVersions -> Prompt] /\ admin \in [Admins -> Edit]
  BY DEF PromptInv
<1>4. ASSUME NEW v \in PromptVersions
      PROVE  /\ prompts'[v] \in Prompt
             /\ prompts'[v].status = IF v \in PublishedOthers(mine) THEN "DEPRECATED" ELSE prompts[v].status
  <2>1. [prompts[v] EXCEPT !.status = "DEPRECATED"] \in Prompt
        /\ [prompts[v] EXCEPT !.status = "DEPRECATED"].status = "DEPRECATED"
    BY <1>3 DEF Prompt
  <2> QED
    BY <1>2, <1>3, <2>1
<1>5. prompts' \in [PromptVersions -> Prompt]
  BY <1>2, <1>4
<1>6. /\ admin' \in [Admins -> Edit] /\ admin'[a].at = "save"
      /\ \A b \in Admins : /\ admin'[b].version = admin[b].version
                            /\ admin'[b].status = admin[b].status
                            /\ Publishing(b)' => Publishing(b)
  BY <1>2, <1>3 DEF Edit, Publishing
<1>7. \A v \in PromptVersions : prompts'[v].status = "PUBLISHED" => v = mine
  BY <1>4 DEF PublishedOthers
<1>8. prompts'[mine].status = prompts[mine].status
  BY <1>4 DEF PublishedOthers
<1>9. \/ lost' \/ prompts'[mine].status = "PUBLISHED"
      \/ admin'[a].at = "save" /\ admin'[a].status # "PUBLISHED" /\ admin'[a].version = mine
  BY <1>1, <1>2, <1>6, <1>8 DEF WritesStatus
<1>10. ChosenStands'
  <2>1. \A v \in PromptVersions : prompts'[v].status = "PUBLISHED" => v \in {chosen'} \cup since'
    BY <1>2, <1>7
  <2>2. \/ lost' \/ prompts'[chosen'].status = "PUBLISHED"
        \/ \E b \in Admins : admin'[b].at = "save" /\ WritesStatus(b)' /\ admin'[b].version = chosen'
    <3>1. CASE lost' \/ prompts'[mine].status = "PUBLISHED"
      BY <1>2, <3>1
    <3>2. CASE admin'[a].at = "save" /\ admin'[a].status # "PUBLISHED" /\ admin'[a].version = mine
      BY <1>2, <3>2 DEF WritesStatus
    <3> QED
      BY <1>9, <3>1, <3>2
  <2> QED
    BY <2>1, <2>2 DEF ChosenStands
<1> QED
  BY <1>2, <1>5, <1>6, <1>10 DEF PromptInv

LEMMA SaveKeeps ==
  ASSUME PromptInv, NEW a \in Admins, SavePublished(a)
  PROVE  PromptInv'
<1>1. PICK mine \in PromptVersions : mine = admin[a].version
  BY DEF SavePublished, PromptInv, Publishing
<1>2. /\ admin[a].at = "save" /\ admin' = [admin EXCEPT ![a] = NoEdit]
      /\ chosen' = chosen /\ starting' = starting
  BY DEF SavePublished
<1>3. /\ prompts \in [PromptVersions -> Prompt] /\ admin \in [Admins -> Edit]
      /\ NoEdit \in Edit /\ NoEdit.at = "free"
  BY DEF PromptInv, NoEdit, Edit
<1>4. /\ admin' \in [Admins -> Edit] /\ \A b \in Admins \ {a} : admin'[b] = admin[b]
      /\ admin'[a].at = "free"
  BY <1>2, <1>3
<1>5. \A b \in Admins : Publishing(b)' => Publishing(b) /\ admin'[b] = admin[b]
  BY <1>4 DEF Publishing
<1>6. CASE WritesStatus(a)
  <2>1. /\ prompts' = [prompts EXCEPT ![mine].status = "PUBLISHED"] /\ since' = since \cup {mine}
        /\ lost' = (lost /\ mine # chosen)
    BY <1>1, <1>6 DEF SavePublished
  <2>2. /\ prompts' \in [PromptVersions -> Prompt] /\ prompts'[mine].status = "PUBLISHED"
        /\ \A v \in PromptVersions \ {mine} : prompts'[v] = prompts[v]
    BY <1>3, <2>1 DEF Prompt
  <2>3. ChosenStands'
    <3>1. SUFFICES ASSUME chosen # 0 PROVE ChosenStands'
      BY <1>2 DEF ChosenStands
    <3>2. \A v \in PromptVersions : prompts'[v].status = "PUBLISHED" => v \in {chosen'} \cup since'
      BY <1>2, <2>1, <2>2, <3>1 DEF PromptInv, ChosenStands
    <3>3. CASE mine = chosen
      BY <1>2, <2>2, <3>2, <3>3 DEF ChosenStands
    <3>4. CASE mine # chosen
      BY <1>1, <1>2, <1>4, <2>1, <2>2, <3>1, <3>2, <3>4 DEF PromptInv, ChosenStands, WritesStatus
    <3> QED
      BY <3>3, <3>4
  <2> QED
    BY <1>2, <1>4, <1>5, <2>2, <2>3 DEF PromptInv
<1>7. CASE ~WritesStatus(a)
  <2>1. prompts' = prompts /\ since' = since /\ lost' = lost
    BY <1>7 DEF SavePublished
  <2>2. ChosenStands'
    BY <1>2, <1>4, <1>7, <2>1 DEF PromptInv, ChosenStands, WritesStatus
  <2> QED
    BY <1>2, <1>3, <1>4, <1>5, <2>1, <2>2 DEF PromptInv
<1> QED
  BY <1>6, <1>7

LEMMA EditDiesKeeps ==
  ASSUME PromptInv, NEW a \in Admins, EditDies(a)
  PROVE  PromptInv'
<1>1. /\ admin' = [admin EXCEPT ![a] = NoEdit] /\ UNCHANGED <<prompts, starting, chosen, since>>
      /\ lost' = (lost \/ (admin[a].at = "save" /\ admin[a].version = chosen /\ prompts[chosen].status # "PUBLISHED"))
  BY DEF EditDies
<1>2. admin \in [Admins -> Edit] /\ NoEdit \in Edit /\ NoEdit.at = "free"
  BY DEF PromptInv, NoEdit, Edit
<1>3. /\ admin' \in [Admins -> Edit] /\ \A b \in Admins \ {a} : admin'[b] = admin[b]
      /\ admin'[a].at = "free"
  BY <1>1, <1>2
<1>4. \A b \in Admins : Publishing(b)' => Publishing(b) /\ admin'[b] = admin[b]
  BY <1>3 DEF Publishing
<1>5. ChosenStands'
  BY <1>1, <1>3 DEF PromptInv, ChosenStands, WritesStatus
<1> QED
  BY <1>1, <1>3, <1>4, <1>5 DEF PromptInv

LEMMA PromptStep ==
  ASSUME PromptInv, PromptNext
  PROVE  PromptInv'
BY SeedKeeps, ProvidersKeep, WritingKeeps, ReadPromptKeeps, DeprecateKeeps, SaveKeeps, EditDiesKeeps
   DEF PromptNext

LEMMA PromptPromise ==
  ASSUME PromptInv
  PROVE  LastPublishedServes
<1> DEFINE standing == {chosen} \cup since
<1> SUFFICES ASSUME chosen # 0, \A a \in Admins : ~Publishing(a)
             PROVE  LET last == prompts[chosen]
                    IN /\ \A v \in PromptVersions : prompts[v].status = "PUBLISHED" => v \in standing
                       /\ ~lost => /\ last.status = "PUBLISHED"
                                   /\ \A p \in last.providers : ResolvePublished(last.schema, p) \in standing
  BY DEF LastPublishedServes
<1>1. /\ chosen \in PromptVersions
      /\ \A v \in PromptVersions : prompts[v].status = "PUBLISHED" => v \in standing
      /\ ~lost => prompts[chosen].status = "PUBLISHED"
  BY DEF PromptInv, ChosenStands, Publishing
<1>2. ASSUME ~lost, NEW p \in prompts[chosen].providers
      PROVE  ResolvePublished(prompts[chosen].schema, p) \in standing
  <2> DEFINE vs == {v \in PromptVersions : /\ prompts[v].status = "PUBLISHED"
                                           /\ prompts[v].schema = prompts[chosen].schema
                                           /\ p \in prompts[v].providers}
  <2>1. vs # {} /\ vs \in SUBSET (1..MaxPrompts)
    BY <1>1, <1>2 DEF PromptVersions
  <2>2. \E v \in vs : \A w \in vs : w <= v
    BY <2>1, PromptAssumption, LastExists
  <2>3. NewestPrompt(vs) \in vs
    BY <2>1, <2>2 DEF NewestPrompt
  <2>4. ResolvePublished(prompts[chosen].schema, p) = NewestPrompt(vs)
    BY DEF ResolvePublished
  <2> QED
    BY <1>1, <2>3, <2>4
<1> QED
  BY <1>1, <1>2

LEMMA PromptStutter ==
  ASSUME PromptInv, UNCHANGED promptVars
  PROVE  PromptInv'
BY DEF promptVars, PromptInv, ChosenStands, Publishing, WritesStatus

-----------------------------------------------------------------------------
(* The indexes of a process that starts.                                   *)

Stages == {"discover", "plan", "create", "catalog", "catalog_create", "ready", "failed"}
Process == [at : Stages, todo : SUBSET Nat, plan : SUBSET Nat, refused : BOOLEAN, made : Nat]

Has(d, k) == Manifests[d][k] \in database.indexes
CatalogHas(k) == \E j \in Existing(Catalog[k]) : ~OptionMismatch(Catalog[k], j)

\* How far a process has come: what is neither listed still, nor planned, nor there
\* was refused, and nothing is made of a plan that was.
Progress(d) ==
  LET one == instance[d]
  IN /\ one.at = "discover" => ~one.refused /\ one.plan = {}
     /\ one.at = "plan" =>
          /\ one.todo \cup one.plan \subseteq DOMAIN Manifests[d]
          /\ ~one.refused => \A k \in DOMAIN Manifests[d] : k \in one.todo \/ k \in one.plan \/ Has(d, k)
     /\ one.at = "create" =>
          /\ one.todo \subseteq DOMAIN Manifests[d]
          /\ \A k \in DOMAIN Manifests[d] : k \in one.todo \/ Has(d, k)
     /\ one.at \in {"catalog", "catalog_create", "ready"} =>
          /\ one.todo \subseteq DOMAIN Catalog
          /\ \A k \in DOMAIN Manifests[d] : Has(d, k)
          /\ \A k \in DOMAIN Catalog : k \in one.todo \/ CatalogHas(k)
     /\ one.at = "catalog_create" => one.todo # {}
     /\ one.at = "ready" => one.todo = {}
     /\ one.at \in {"discover", "plan"} => one.made = 0
     /\ one.refused => one.made = 0 /\ one.at \in {"plan", "failed"}

IndexInv ==
  /\ instance \in [Instances -> Process]
  /\ database = [indexes |-> database.indexes, dirty |-> database.dirty]
  /\ \A i \in database.indexes : IsIndex(i)
  /\ \A d \in Instances : Progress(d)

LEMMA IndexStart ==
  ASSUME IndexInit
  PROVE  IndexInv
<1>1. NotStarted \in Process /\ NotStarted.at = "discover" /\ ~NotStarted.refused
      /\ NotStarted.plan = {} /\ NotStarted.made = 0
  BY DEF NotStarted, Process, Stages
<1> QED
  BY <1>1, IndexAssumption DEF IndexInit, IndexInv, Progress

LEMMA ForemostIs ==
  ASSUME NEW S \in SUBSET Nat, S # {}
  PROVE  Foremost(S) \in S
BY LeastExists DEF Foremost

\* Steps of one process that take no index away.
LEMMA OneProcess ==
  ASSUME IndexInv, NEW d \in Instances, NEW next \in Process, instance' = [instance EXCEPT ![d] = next],
         database' = [indexes |-> database'.indexes, dirty |-> database'.dirty],
         database.indexes \subseteq database'.indexes, \A i \in database'.indexes : IsIndex(i),
         Progress(d)'
  PROVE  IndexInv'
<1>1. /\ instance' \in [Instances -> Process]
      /\ \A e \in Instances \ {d} : instance'[e] = instance[e]
  BY DEF IndexInv
<1>2. \A e, k : Has(e, k) => Has(e, k)'
  BY DEF Has
<1>3. \A k : CatalogHas(k) => CatalogHas(k)'
  BY DEF CatalogHas, Existing
<1>4. \A e \in Instances \ {d} : Progress(e)'
  <2>1. ASSUME NEW e \in Instances \ {d} PROVE Progress(e)'
    BY <1>1, <1>2, <1>3 DEF IndexInv, Progress
  <2> QED
    BY <2>1
<1> QED
  BY <1>1, <1>4 DEF IndexInv

\* The same, of a database that stays as it is.
LEMMA OneQuietProcess ==
  ASSUME IndexInv, NEW d \in Instances, NEW next \in Process, instance' = [instance EXCEPT ![d] = next],
         database' = database, Progress(d)'
  PROVE  IndexInv'
BY OneProcess DEF IndexInv

LEMMA FailingKeeps ==
  ASSUME IndexInv, NEW d \in Instances, InstanceFails(d), database' = database,
         instance[d].refused => instance[d].made = 0
  PROVE  IndexInv'
<1> DEFINE next == [instance[d] EXCEPT !.at = "failed"]
<1>1. instance[d] \in Process /\ instance \in [Instances -> Process]
  BY DEF IndexInv
<1>2. next \in Process /\ next.at = "failed" /\ next.refused = instance[d].refused /\ next.made = instance[d].made
  BY <1>1 DEF Process, Stages
<1>3. instance' = [instance EXCEPT ![d] = next]
  BY <1>1 DEF InstanceFails
<1> HIDE DEF next
<1>4. instance'[d] = next
  BY <1>1, <1>3
<1>5. Progress(d)'
  BY <1>2, <1>4 DEF Progress
<1> QED
  BY <1>2, <1>3, <1>5, OneQuietProcess

LEMMA DiscoverKeeps ==
  ASSUME IndexInv, NEW d \in Instances, DiscoverIndexDefinitions(d)
  PROVE  IndexInv'
<1>1. instance[d] \in Process /\ instance \in [Instances -> Process] /\ Progress(d)
      /\ instance[d].at = "discover" /\ database' = database
  BY DEF IndexInv, DiscoverIndexDefinitions, InstanceAt
<1>2. CASE InstanceFails(d)
  BY <1>1, <1>2, FailingKeeps DEF Progress
<1>3. CASE instance' = [instance EXCEPT ![d].at = "plan", ![d].todo = DOMAIN Manifests[d]]
  <2> DEFINE next == [instance[d] EXCEPT !.at = "plan", !.todo = DOMAIN Manifests[d]]
  <2>1. /\ next \in Process /\ next.at = "plan" /\ next.todo = DOMAIN Manifests[d]
        /\ next.plan = instance[d].plan /\ next.refused = instance[d].refused /\ next.made = instance[d].made
    BY <1>1, IndexAssumption DEF Process, Stages
  <2>2. instance' = [instance EXCEPT ![d] = next]
    BY <1>1, <1>3
  <2> HIDE DEF next
  <2>3. instance'[d] = next
    BY <1>1, <2>2
  <2>4. Progress(d)'
    BY <1>1, <2>1, <2>3 DEF Progress
  <2> QED
    BY <1>1, <2>1, <2>2, <2>4, OneQuietProcess
<1> QED
  BY <1>2, <1>3 DEF DiscoverIndexDefinitions

\* A definition that finds an index, and none of other options, is in the database.
LEMMA FoundIsThere ==
  ASSUME IndexInv, NEW i, IsIndex(i), Existing(i) # {},
         \A j \in Existing(i) : SameCompatibilityOptions(i, j)
  PROVE  i \in database.indexes
<1>1. PICK j \in database.indexes : SameIndex(i, j) /\ i.options = j.options
  BY DEF Existing, SameCompatibilityOptions
<1>2. IsIndex(j)
  BY DEF IndexInv
<1>3. i = j
  BY <1>1, <1>2 DEF IsIndex, SameIndex
<1> QED
  BY <1>3

LEMMA PlanKeeps ==
  ASSUME IndexInv, NEW d \in Instances, BuildPlan(d) \/ FinishPlan(d)
  PROVE  IndexInv'
<1>1. /\ instance[d] \in Process /\ instance \in [Instances -> Process] /\ Progress(d)
      /\ instance[d].at = "plan" /\ database' = database
  BY DEF IndexInv, BuildPlan, FinishPlan, InstanceAt
<1>2. CASE BuildPlan(d)
  <2> DEFINE definition == Manifests[d]
             collection == definition[Foremost(instance[d].todo)].collection
             listed == {k \in instance[d].todo : definition[k].collection = collection}
             missing == {k \in listed : Existing(definition[k]) = {}}
             bad == \E k \in listed : \E j \in Existing(definition[k]) :
                       ~SameCompatibilityOptions(definition[k], j)
             next == [instance[d] EXCEPT !.todo = @ \ listed, !.plan = @ \cup missing, !.refused = @ \/ bad]
  <2>1. instance' = [instance EXCEPT ![d].todo = @ \ listed, ![d].plan = @ \cup missing, ![d].refused = @ \/ bad]
    BY <1>2 DEF BuildPlan
  <2>2. /\ listed \subseteq instance[d].todo /\ missing \subseteq listed /\ instance[d].todo \subseteq DOMAIN definition
    BY <1>1 DEF Progress
  <2>3. ~bad => \A k \in listed : k \in missing \/ Has(d, k)
    <3>1. ASSUME ~bad, NEW k \in listed, k \notin missing PROVE Has(d, k)
      <4>1. IsIndex(definition[k])
        BY <2>2, IndexAssumption
      <4>2. Existing(definition[k]) # {} /\ \A j \in Existing(definition[k]) : SameCompatibilityOptions(definition[k], j)
        BY <3>1
      <4> QED
        BY <4>1, <4>2, FoundIsThere DEF Has
    <3> QED
      BY <3>1
  <2>4. bad \in BOOLEAN
    OBVIOUS
  <2> HIDE DEF listed, missing, bad
  <2>5. instance[d].todo \ listed \in SUBSET Nat /\ instance[d].plan \cup missing \in SUBSET Nat
        /\ (instance[d].refused \/ bad) \in BOOLEAN
    BY <1>1, <2>2, <2>4 DEF Process
  <2>6. /\ next \in Process /\ next.at = "plan" /\ next.todo = instance[d].todo \ listed
        /\ next.plan = instance[d].plan \cup missing /\ next.made = instance[d].made
        /\ next.refused = (instance[d].refused \/ bad)
    BY <1>1, <2>5 DEF Process
  <2>7. instance' = [instance EXCEPT ![d] = next]
    BY <1>1, <2>1
  <2> HIDE DEF next
  <2>8. instance'[d] = next
    BY <1>1, <2>7
  <2>9. \A k : Has(d, k)' <=> Has(d, k)
    BY <1>1 DEF Has
  <2>10. Progress(d)'
    BY <1>1, <2>2, <2>3, <2>6, <2>8, <2>9 DEF Progress
  <2> QED
    BY <1>1, <2>6, <2>7, <2>10, OneQuietProcess
<1>3. CASE FinishPlan(d) /\ instance[d].refused
  BY <1>1, <1>3, FailingKeeps DEF FinishPlan, Progress
<1>4. CASE FinishPlan(d) /\ ~instance[d].refused
  <2> DEFINE next == [instance[d] EXCEPT !.at = "create", !.todo = instance[d].plan, !.plan = {}]
  <2>1. /\ next \in Process /\ next.at = "create" /\ next.todo = instance[d].plan
        /\ next.refused = instance[d].refused
    BY <1>1 DEF Process, Stages
  <2>2. instance' = [instance EXCEPT ![d] = next] /\ instance[d].todo = {}
    BY <1>1, <1>4 DEF FinishPlan
  <2> HIDE DEF next
  <2>3. instance'[d] = next
    BY <1>1, <2>2
  <2>4. \A k : Has(d, k)' <=> Has(d, k)
    BY <1>1 DEF Has
  <2>5. Progress(d)'
    BY <1>1, <1>4, <2>1, <2>2, <2>3, <2>4 DEF Progress
  <2> QED
    BY <1>1, <2>1, <2>2, <2>5, OneQuietProcess
<1> QED
  BY <1>2, <1>3, <1>4

\* An index is made, or found, or the process fails.
LEMMA CreateKeeps ==
  ASSUME IndexInv, NEW d \in Instances, CreateApplicationIndex(d) \/ CreateCatalogIndex(d)
  PROVE  IndexInv'
<1>1. /\ instance[d] \in Process /\ instance \in [Instances -> Process] /\ Progress(d)
      /\ instance[d].at \in {"create", "catalog_create"} /\ instance[d].todo # {}
      /\ ~instance[d].refused
  BY DEF IndexInv, CreateApplicationIndex, CreateCatalogIndex, InstanceAt, Progress
<1>2. PICK list, next :
        /\ CreateIndex(d, list, next) /\ next \in {"create", "catalog"}
        /\ \A k \in instance[d].todo : IsIndex(list[k])
        /\ \/ instance[d].at = "create" /\ next = "create" /\ list = Manifests[d]
           \/ instance[d].at = "catalog_create" /\ next = "catalog" /\ list = Catalog
  <2>1. CASE CreateApplicationIndex(d)
    <3>1. instance[d].at = "create" /\ CreateIndex(d, Manifests[d], "create")
      BY <2>1 DEF CreateApplicationIndex, InstanceAt
    <3>2. \A k \in instance[d].todo : IsIndex(Manifests[d][k])
      BY <1>1, <3>1, IndexAssumption DEF Progress
    <3> QED
      BY <3>1, <3>2
  <2>2. CASE CreateCatalogIndex(d)
    <3>1. instance[d].at = "catalog_create" /\ CreateIndex(d, Catalog, "catalog")
      BY <2>2 DEF CreateCatalogIndex, InstanceAt
    <3>2. \A k \in instance[d].todo : IsIndex(Catalog[k])
      BY <1>1, <3>1, IndexAssumption DEF Progress
    <3> QED
      BY <3>1, <3>2
  <2> QED
    BY <2>1, <2>2
<1>3. CASE InstanceFails(d) /\ database' = database
  BY <1>1, <1>3, FailingKeeps
<1>4. ASSUME NEW k \in instance[d].todo, IsIndex(list[k]),
             database' = [database EXCEPT !.indexes = @ \cup {list[k]}],
             instance' = [instance EXCEPT ![d].at = next, ![d].todo = @ \ {k}, ![d].made = @ + 1]
      PROVE  IndexInv'
  <2> DEFINE after == [instance[d] EXCEPT !.at = next, !.todo = @ \ {k}, !.made = @ + 1]
  <2>1. /\ after \in Process /\ after.at = next /\ after.todo = instance[d].todo \ {k}
        /\ after.refused = instance[d].refused
    <3>1. next \in Stages
      BY <1>2 DEF Stages
    <3>2. instance[d].todo \ {k} \in SUBSET Nat /\ instance[d].made + 1 \in Nat
      BY <1>1 DEF Process
    <3> QED
      BY <1>1, <3>1, <3>2 DEF Process
  <2>2. instance' = [instance EXCEPT ![d] = after]
    BY <1>1, <1>4
  <2> HIDE DEF after
  <2>3. instance'[d] = after
    BY <1>1, <2>2
  <2>4. /\ database'.indexes = database.indexes \cup {list[k]}
        /\ database' = [indexes |-> database'.indexes, dirty |-> database'.dirty]
    BY <1>4 DEF IndexInv
  <2>5. database.indexes \subseteq database'.indexes /\ \A i \in database'.indexes : IsIndex(i)
    BY <1>4, <2>4 DEF IndexInv
  <2>6. (\A l : Has(d, l) => Has(d, l)') /\ (list = Manifests[d] => Has(d, k)')
    BY <2>4 DEF Has
  <2>7. \A l : CatalogHas(l) => CatalogHas(l)'
    BY <2>4 DEF CatalogHas, Existing
  <2>8. list = Catalog => CatalogHas(k)'
    BY <2>4 DEF CatalogHas, Existing, SameIndex, OptionMismatch
  <2>9. Progress(d)'
    <3>1. CASE instance[d].at = "create" /\ next = "create" /\ list = Manifests[d]
      BY <1>1, <2>1, <2>3, <2>6, <3>1 DEF Progress
    <3>2. CASE instance[d].at = "catalog_create" /\ next = "catalog" /\ list = Catalog
      BY <1>1, <2>1, <2>3, <2>6, <2>7, <2>8, <3>2 DEF Progress
    <3> QED
      BY <1>2, <3>1, <3>2
  <2> QED
    BY <2>1, <2>2, <2>4, <2>5, <2>9, OneProcess
<1>5. \/ InstanceFails(d) /\ database' = database
      \/ \E k \in instance[d].todo :
           /\ database' = [database EXCEPT !.indexes = @ \cup {list[k]}]
           /\ instance' = [instance EXCEPT ![d].at = next, ![d].todo = @ \ {k}, ![d].made = @ + 1]
           /\ IsIndex(list[k])
  <2>1. Foremost(instance[d].todo) \in instance[d].todo
    BY <1>1, ForemostIs DEF Process
  <2> QED
    BY <1>2, <2>1 DEF CreateIndex
<1> QED
  BY <1>3, <1>4, <1>5

LEMMA CatalogKeeps ==
  ASSUME IndexInv, NEW d \in Instances,
         ApplicationIndexesReady(d) \/ CheckCatalogIndex(d) \/ CatalogIndexesReady(d)
  PROVE  IndexInv'
<1>1. /\ instance[d] \in Process /\ instance \in [Instances -> Process] /\ Progress(d)
      /\ database' = database
  BY DEF IndexInv, ApplicationIndexesReady, CheckCatalogIndex, CatalogIndexesReady
<1>2. /\ \A k : Has(d, k)' <=> Has(d, k)
      /\ \A k : CatalogHas(k)' <=> CatalogHas(k)
  BY <1>1 DEF Has, CatalogHas, Existing
<1>3. ASSUME NEW at \in {"catalog", "catalog_create", "ready"}, NEW todo \in SUBSET DOMAIN Catalog,
             instance' = [instance EXCEPT ![d].at = at, ![d].todo = todo],
             \A k \in DOMAIN Manifests[d] : Has(d, k),
             \A k \in DOMAIN Catalog : k \in todo \/ CatalogHas(k),
             at = "catalog_create" => todo # {}, at = "ready" => todo = {}, ~instance[d].refused
      PROVE  IndexInv'
  <2> DEFINE next == [instance[d] EXCEPT !.at = at, !.todo = todo]
  <2>1. next \in Process /\ next.at = at /\ next.todo = todo /\ ~next.refused
    BY <1>1, <1>3, IndexAssumption DEF Process, Stages
  <2>2. instance' = [instance EXCEPT ![d] = next]
    BY <1>1, <1>3
  <2> HIDE DEF next
  <2>3. instance'[d] = next
    BY <1>1, <2>2
  <2>4. Progress(d)'
    BY <1>2, <1>3, <2>1, <2>3 DEF Progress
  <2> QED
    BY <1>1, <2>1, <2>2, <2>4, OneQuietProcess
<1>4. CASE ApplicationIndexesReady(d)
  <2>1. instance[d].at = "create" /\ instance[d].todo = {}
        /\ instance' = [instance EXCEPT ![d].at = "catalog", ![d].todo = DOMAIN Catalog]
    BY <1>4 DEF ApplicationIndexesReady, InstanceAt
  <2> QED
    BY <1>1, <1>3, <2>1 DEF Progress
<1>5. CASE CheckCatalogIndex(d)
  <2> DEFINE k == Foremost(instance[d].todo)
  <2>1. instance[d].at = "catalog" /\ instance[d].todo # {} /\ instance[d].todo \in SUBSET DOMAIN Catalog
    BY <1>1, <1>5 DEF CheckCatalogIndex, InstanceAt, Progress
  <2>2. k \in instance[d].todo
    BY <1>1, <2>1, ForemostIs DEF Process
  <2>3. CASE instance' = [instance EXCEPT ![d].at = "catalog_create"]
    <3>1. instance' = [instance EXCEPT ![d].at = "catalog_create", ![d].todo = instance[d].todo]
      BY <1>1, <2>3 DEF Process
    <3> QED
      BY <1>1, <1>3, <2>1, <3>1 DEF Progress
  <2>4. CASE InstanceFails(d)
    BY <1>1, <2>1, <2>4, FailingKeeps DEF Progress
  <2>5. CASE /\ instance' = [instance EXCEPT ![d].todo = @ \ {k}]
             /\ Existing(Catalog[k]) # {} /\ ~\E j \in Existing(Catalog[k]) : OptionMismatch(Catalog[k], j)
    <3>1. CatalogHas(k)
      BY <2>5 DEF CatalogHas
    <3> HIDE DEF k
    <3>2. instance' = [instance EXCEPT ![d].at = "catalog", ![d].todo = instance[d].todo \ {k}]
      BY <1>1, <2>1, <2>5 DEF Process
    <3>3. \A l \in DOMAIN Catalog : l \in instance[d].todo \ {k} \/ CatalogHas(l)
      BY <1>1, <2>1, <3>1 DEF Progress
    <3> QED
      BY <1>1, <1>3, <2>1, <3>2, <3>3 DEF Progress
  <2> QED
    BY <1>5, <2>3, <2>4, <2>5 DEF CheckCatalogIndex
<1>6. CASE CatalogIndexesReady(d)
  <2>1. instance[d].at = "catalog" /\ instance[d].todo = {} /\ instance' = [instance EXCEPT ![d].at = "ready"]
    BY <1>6 DEF CatalogIndexesReady, InstanceAt
  <2>2. instance' = [instance EXCEPT ![d].at = "ready", ![d].todo = {}]
    BY <1>1, <2>1 DEF Process
  <2> QED
    BY <1>1, <1>3, <2>1, <2>2 DEF Progress
<1> QED
  BY <1>4, <1>5, <1>6

LEMMA IndexStep ==
  ASSUME IndexInv, IndexNext
  PROVE  IndexInv'
<1>1. ASSUME NEW d \in Instances, Restart(d) PROVE IndexInv'
  <2>1. NotStarted \in Process /\ NotStarted.at = "discover" /\ ~NotStarted.refused
        /\ NotStarted.plan = {} /\ NotStarted.made = 0
    BY DEF NotStarted, Process, Stages
  <2>2. instance' = [instance EXCEPT ![d] = NotStarted] /\ instance'[d] = NotStarted /\ database' = database
    BY <1>1 DEF Restart, IndexInv
  <2>3. Progress(d)'
    BY <2>1, <2>2 DEF Progress
  <2> QED
    BY <2>1, <2>2, <2>3, OneQuietProcess
<1> QED
  BY <1>1, DiscoverKeeps, PlanKeeps, CreateKeeps, CatalogKeeps DEF IndexNext

LEMMA IndexPromise ==
  ASSUME IndexInv
  PROVE  StartedHasIndexes
<1>1. \A d \in Instances : Progress(d)
  BY DEF IndexInv
<1> QED
  BY <1>1 DEF StartedHasIndexes, Progress, Has, CatalogHas

LEMMA IndexStutter ==
  ASSUME IndexInv, UNCHANGED indexVars
  PROVE  IndexInv'
BY DEF indexVars, IndexInv, Progress, Has, CatalogHas, Existing

-----------------------------------------------------------------------------
(* The theorems.                                                           *)

PlatformInv == RouterInv /\ KeyInv /\ PublisherInv /\ PromptInv /\ IndexInv

LEMMA PlatformStart ==
  ASSUME MCInit
  PROVE  PlatformInv
BY RouterStart, KeyStart, PublisherStart, PromptStart, IndexStart DEF MCInit, PlatformInv

\* A scene that is not played stays as it is.
LEMMA PlatformStep ==
  ASSUME PlatformInv, [MCNext]_platformVars
  PROVE  /\ PlatformInv'
         /\ [FirstComesFirst]_vars
<1> USE DEF PlatformInv
<1>1. RouterInv' /\ [FirstComesFirst]_vars
  <2>1. Next \/ UNCHANGED vars
    BY DEF MCNext, platformVars
  <2> QED
    BY <2>1, RouterStep, RouterStutter, StepInOrder
<1>2. KeyInv'
  <2>1. KeyNext \/ UNCHANGED keyVars
    BY DEF MCNext, platformVars
  <2> QED
    BY <2>1, KeyStep, KeyStutter
<1>3. PublisherInv'
  <2>1. PublisherNext \/ UNCHANGED publisherVars
    BY DEF MCNext, platformVars
  <2> QED
    BY <2>1, PublisherStep, PublisherStutter
<1>4. PromptInv'
  <2>1. PromptNext \/ UNCHANGED promptVars
    BY DEF MCNext, platformVars
  <2> QED
    BY <2>1, PromptStep, PromptStutter
<1>5. IndexInv'
  <2>1. IndexNext \/ UNCHANGED indexVars
    BY DEF MCNext, platformVars
  <2> QED
    BY <2>1, IndexStep, IndexStutter
<1> QED
  BY <1>1, <1>2, <1>3, <1>4, <1>5

\* Places in the gate and credentials are counted right, whatever the limits, the
\* providers and the number of calls (ai-concurrency.service.ts:60, "finally" gives
\* back what the call took; provider-key-pool.service.ts:84-102, a lease ends once),
\* and no call waits that could start (ai-concurrency.service.ts:73).
THEOREM HoldersAreRight == MCSpec => []HoldersAgree
<1>1. MCInit => PlatformInv
  BY PlatformStart
<1>2. PlatformInv /\ [MCNext]_platformVars => PlatformInv'
  BY PlatformStep
<1>3. PlatformInv => HoldersAgree
  BY RouterPromise, KeyPromise DEF PlatformInv, HoldersAgree
<1> QED
  BY <1>1, <1>2, <1>3, PTL DEF MCSpec

\* docs/provider-routing.md:79 "An in-process FIFO gate": of two calls for the same
\* provider and capability the one queued first is admitted first, though the pass
\* over the queue skips those that find no room.
THEOREM TheGateIsFair == MCSpec => FifoPerClass
<1>1. MCInit => PlatformInv
  BY PlatformStart
<1>2. PlatformInv /\ [MCNext]_platformVars => PlatformInv'
  BY PlatformStep
<1>3. PlatformInv /\ [MCNext]_platformVars => [FirstComesFirst]_vars
  BY PlatformStep
<1> QED
  BY <1>1, <1>2, <1>3, PTL DEF MCSpec, FifoPerClass, FirstComesFirst

\* An administrator's override stands whatever analyses find the publisher afterwards
\* (publishers.service.ts:102-126), though another override saved since may have written
\* over it; the version whose publication deprecated the others last is published unless
\* it was lost, and only what was published or seeded since beside it
\* (prompt-registry.service.ts:95-162);
\* a process that started has its indexes, and one that met a conflict made none
\* (create-application-indexes.mjs:235-236), whatever other releases provision meanwhile.
THEOREM TheConfigurationStands == MCSpec => []ConfigurationHolds
<1>1. MCInit => PlatformInv
  BY PlatformStart
<1>2. PlatformInv /\ [MCNext]_platformVars => PlatformInv'
  BY PlatformStep
<1>3. PlatformInv => ConfigurationHolds
  BY PublisherPromise, PromptPromise, IndexPromise DEF PlatformInv, ConfigurationHolds
<1> QED
  BY <1>1, <1>2, <1>3, PTL DEF MCSpec
=============================================================================
