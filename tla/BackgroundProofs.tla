---------------------------- MODULE BackgroundProofs ----------------------------
(***************************************************************************)
(* Proofs about what schedulers do day by day: the challenge of the day,   *)
(* for any number of replicas and users, any page size and any failures,   *)
(* the erasure of accounts, and the dispatch of the domain events.         *)
(***************************************************************************)
EXTENDS Daily, Erasure, Outbox, FiniteSetTheorems, WellFoundedInduction, TLAPS

DailySpec == DailyInit /\ [][DailyNext]_dailyVars

-----------------------------------------------------------------------------
(* Pages.                                                                  *)

\* A set of natural numbers has a least element.
LEMMA LeastExists ==
  ASSUME NEW S \in SUBSET Nat, S # {}
  PROVE  \E x \in S : \A y \in S : x <= y
<1> DEFINE Less == OpToRel(<, Nat)
<1>1. IsWellFoundedOn(Less, Nat)
  BY NatLessThanWellFounded
<1> HIDE DEF Less
<1>2. \E x \in S : \A y \in S : <<y, x>> \notin Less
  BY <1>1, WFMin
<1>3. PICK x \in S : \A y \in S : <<y, x>> \notin Less
  BY <1>2
<1>4. ASSUME NEW y \in S PROVE x <= y
  <2>1. x \in Nat /\ y \in Nat
    OBVIOUS
  <2>2. y < x => <<y, x>> \in Less
    BY <2>1 DEF Less, OpToRel
  <2> QED
    BY <1>3, <2>1, <2>2
<1> QED
  BY <1>4

Under(S, u) == {v \in S : v < u}

\* What is below a number of a set of natural numbers is finite, and more is below a
\* larger one.
LEMMA Below ==
  ASSUME NEW S \in SUBSET Nat, NEW u \in S, NEW w \in S, u <= w
  PROVE  /\ Cardinality(Under(S, u)) \in Nat /\ Cardinality(Under(S, w)) \in Nat
         /\ Cardinality(Under(S, u)) <= Cardinality(Under(S, w))
         /\ u < w => Cardinality(Under(S, u)) < Cardinality(Under(S, w))
<1>1. S \subseteq Nat /\ u \in Nat /\ w \in Nat
  OBVIOUS
<1>2. IsFiniteSet(Under(S, w))
  <2>1. IsFiniteSet(0..w)
    BY <1>1, FS_Interval
  <2>2. ASSUME NEW v \in Under(S, w) PROVE v \in 0..w
    <3>1. v \in S /\ v < w
      BY DEF Under
    <3>2. v \in Nat
      BY <3>1
    <3> QED
      BY <1>1, <3>1, <3>2
  <2>3. Under(S, w) \in SUBSET (0..w)
    BY <2>2
  <2> QED
    BY <2>1, <2>3, FS_Subset
<1>3. ASSUME NEW v \in Under(S, u) PROVE v \in Under(S, w)
  <2>1. v \in S /\ v < u
    BY DEF Under
  <2>2. v \in Nat
    BY <2>1
  <2>3. v < w
    BY <1>1, <2>1, <2>2
  <2> QED
    BY <2>1, <2>3 DEF Under
<1>4. Under(S, u) \in SUBSET Under(S, w)
  BY <1>3
<1>5. u < w => Under(S, u) # Under(S, w)
  <2>1. u < w => u \in Under(S, w)
    BY DEF Under
  <2>2. u \notin Under(S, u)
    BY <1>1 DEF Under
  <2> QED
    BY <2>1, <2>2
<1>6. /\ IsFiniteSet(Under(S, u)) /\ Cardinality(Under(S, u)) <= Cardinality(Under(S, w))
      /\ u < w => Cardinality(Under(S, u)) # Cardinality(Under(S, w))
  <2>1. /\ IsFiniteSet(Under(S, u)) /\ Cardinality(Under(S, u)) <= Cardinality(Under(S, w))
        /\ Cardinality(Under(S, u)) = Cardinality(Under(S, w)) => Under(S, u) = Under(S, w)
    BY <1>2, <1>4, FS_Subset
  <2> QED
    BY <1>5, <2>1
<1>7. Cardinality(Under(S, u)) \in Nat /\ Cardinality(Under(S, w)) \in Nat
  BY <1>2, <1>6, FS_CardinalityType
<1> QED
  BY <1>6, <1>7

\* A finite set of users has a greatest one: the one with most users below it.
LEMMA GreatestIsMax ==
  ASSUME NEW S \in SUBSET Nat, IsFiniteSet(S), S # {}
  PROVE  Max(S) \in S /\ \A x \in S : x <= Max(S)
<1> DEFINE above(x) == Cardinality(S) - Cardinality(Under(S, x))
           T == {above(x) : x \in S}
<1>1. \A x \in S : above(x) \in Nat
  <2> TAKE x \in S
  <2>1. Under(S, x) \in SUBSET S
    BY DEF Under
  <2>2. /\ IsFiniteSet(Under(S, x)) /\ Cardinality(Under(S, x)) <= Cardinality(S)
    BY <2>1, FS_Subset
  <2>3. Cardinality(Under(S, x)) \in Nat /\ Cardinality(S) \in Nat
    BY <2>2, FS_CardinalityType
  <2> QED
    BY <2>2, <2>3
<1>2. T \in SUBSET Nat /\ T # {}
  BY <1>1
<1>3. PICK n \in T : \A m \in T : n <= m
  <2> HIDE DEF T
  <2> QED
    BY <1>2, LeastExists
<1>4. PICK x \in S : n = above(x)
  OBVIOUS
<1>5. ASSUME NEW y \in S PROVE y <= x
  <2>1. above(x) <= above(y)
    BY <1>3, <1>4
  <2>2. x \in Nat /\ y \in Nat
    OBVIOUS
  <2>3. x < y => Cardinality(Under(S, x)) < Cardinality(Under(S, y))
    BY <2>2, Below
  <2>4. Cardinality(Under(S, x)) \in Nat /\ Cardinality(Under(S, y)) \in Nat
    BY <2>2, Below
  <2>5. Cardinality(S) \in Nat
    BY FS_CardinalityType
  <2> HIDE DEF T
  <2> QED
    BY <2>1, <2>2, <2>3, <2>4, <2>5
<1>6. \A y \in S : x >= y
  <2> TAKE y \in S
  <2>1. y <= x /\ y \in Nat /\ x \in Nat
    BY <1>5
  <2> QED
    BY <2>1
<1>7. Max(S) \in S /\ \A y \in S : Max(S) >= y
  BY <1>6 DEF Max
<1>8. ASSUME NEW y \in S PROVE y <= Max(S)
  <2>1. Max(S) >= y /\ y \in Nat /\ Max(S) \in Nat
    BY <1>7
  <2> QED
    BY <2>1
<1> QED
  BY <1>7, <1>8

\* A page takes users from below: with a user it has all who come before.
LEMMA PageIsInitial ==
  ASSUME NEW S \in SUBSET Nat, NEW u \in S, NEW w \in FirstPage(S), u <= w
  PROVE  u \in FirstPage(S)
<1>1. w \in S /\ Cardinality(Under(S, w)) < PageSize
  BY DEF FirstPage, Under
<1>2. /\ Cardinality(Under(S, u)) <= Cardinality(Under(S, w))
      /\ Cardinality(Under(S, u)) \in Nat /\ Cardinality(Under(S, w)) \in Nat
  BY <1>1, Below
<1>3. Cardinality(Under(S, u)) < PageSize
  BY <1>1, <1>2, DailyAssumption
<1> QED
  BY <1>3 DEF FirstPage, Under

\* A page that is not full is the last one.
LEMMA ShortPageIsAll ==
  ASSUME NEW S \in SUBSET Nat, IsFiniteSet(S), Cardinality(FirstPage(S)) < PageSize
  PROVE  FirstPage(S) = S
<1> SUFFICES ASSUME S \ FirstPage(S) # {} PROVE FALSE
  BY DEF FirstPage
<1>1. PICK u \in S \ FirstPage(S) : \A w \in S \ FirstPage(S) : u <= w
  BY LeastExists
<1>2. ASSUME NEW v \in Under(S, u) PROVE v \in FirstPage(S)
  <2>1. v \in S /\ v < u /\ v \in Nat /\ u \in Nat
    BY DEF Under
  <2>2. ~(u <= v)
    BY <2>1
  <2> QED
    BY <1>1, <2>1, <2>2
<1>3. IsFiniteSet(FirstPage(S))
  BY FS_Subset DEF FirstPage
<1>4. /\ IsFiniteSet(Under(S, u))
      /\ Cardinality(Under(S, u)) <= Cardinality(FirstPage(S))
  BY <1>2, <1>3, FS_Subset
<1>5. Cardinality(Under(S, u)) \in Nat /\ Cardinality(FirstPage(S)) \in Nat
  BY <1>3, <1>4, FS_CardinalityType
<1>6. Cardinality(Under(S, u)) < PageSize
  BY <1>4, <1>5, DailyAssumption
<1> QED
  BY <1>1, <1>6 DEF FirstPage, Under

-----------------------------------------------------------------------------
(* The invariant.                                                          *)

Steps == {"asleep", "owner", "generate", "store", "broadcast", "last", "mark"}
Contents == {"none", "good", "refused"}
ChallengeStatuses == {"none", "draft", "published", "archived"}
Runs == [step : Steps, day : Days, content : Contents, cursor : Nat,
         page : SUBSET Users, reach : SUBSET Users]
Records == [content : Contents, status : ChallengeStatuses, broadcast : BOOLEAN]

TypesHold ==
  /\ today \in Days
  /\ challenge \in [Days -> Records]
  /\ active \in SUBSET Users /\ wanting \in SUBSET Users
  /\ run \in [Replicas -> Runs]
  /\ owed \in [Days -> SUBSET Users]

Covered(r, wanted, told) ==
  /\ r.reach \subseteq wanted
  /\ r.step \in {"broadcast", "last"} =>
       \A u \in r.reach : (u <= r.cursor /\ u \notin r.page) => <<u, r.day>> \in told
  /\ r.step = "last" => \A u \in r.reach : u <= r.cursor
  /\ r.step = "mark" => \A u \in r.reach : <<u, r.day>> \in told

IInv == /\ TypesHold
        /\ \A s \in Replicas : Covered(run[s], active \cap wanting, notices)
        /\ ReachesEveryone

LEMMA DaysAreNumbers == 1 \in Days /\ Days \subseteq Nat
  BY DailyAssumption DEF Days

LEMMA UsersAreNumbers == /\ Users \subseteq Nat /\ IsFiniteSet(Users)
                         /\ \A u \in Users : u > 0
  BY DailyAssumption

LEMMA AsleepIsCovered ==
  /\ Asleep \in Runs
  /\ \A wanted, told : Covered(Asleep, wanted, told)
<1>1. Asleep \in Runs
  BY DaysAreNumbers DEF Asleep, Runs, Steps, Contents
<1>2. Asleep.step = "asleep" /\ Asleep.reach = {}
  BY DEF Asleep
<1> QED
  BY <1>1, <1>2 DEF Covered

LEMMA Initially == DailyInit => IInv
<1> SUFFICES ASSUME DailyInit PROVE IInv
  OBVIOUS
<1>1. TypesHold
  <2>1. Absent \in Records
    BY DEF Absent, Records, Contents, ChallengeStatuses
  <2>2. challenge \in [Days -> Records] /\ run \in [Replicas -> Runs]
    BY <2>1, AsleepIsCovered DEF DailyInit
  <2>3. owed \in [Days -> SUBSET Users]
    BY DEF DailyInit
  <2> QED
    BY <2>2, <2>3, DaysAreNumbers DEF DailyInit, TypesHold
<1>2. \A s \in Replicas : Covered(run[s], active \cap wanting, notices)
  BY AsleepIsCovered DEF DailyInit
<1>3. ReachesEveryone
  BY DEF DailyInit, ReachesEveryone
<1> QED
  BY <1>1, <1>2, <1>3 DEF IInv

-----------------------------------------------------------------------------
(* Every step keeps it.                                                    *)

\* A step of one scheduler that adds notifications at most leaves the others as they were.
LEMMA OthersStand ==
  ASSUME IInv, NEW s \in Replicas,
         run' = [run EXCEPT ![s] = run'[s]], run'[s] \in Runs,
         Covered(run'[s], active \cap wanting, notices'),
         UNCHANGED <<active, wanting>>, notices \subseteq notices'
  PROVE  /\ run' \in [Replicas -> Runs]
         /\ \A t \in Replicas : Covered(run'[t], active' \cap wanting', notices')
<1>1. run \in [Replicas -> Runs]
  BY DEF IInv, TypesHold
<1>2. ASSUME NEW t \in Replicas, t # s
      PROVE  Covered(run'[t], active \cap wanting, notices')
  <2>1. run'[t] = run[t]
    BY <1>1, <1>2
  <2>2. Covered(run[t], active \cap wanting, notices)
    BY DEF IInv
  <2> QED
    BY <2>1, <2>2 DEF Covered
<1> QED
  BY <1>1, <1>2

\* What was owed stays given while neither the marks nor what is owed changes.
LEMMA OwedStands ==
  ASSUME ReachesEveryone, notices \subseteq notices', owed' = owed,
         \A d \in Days : challenge'[d].broadcast = challenge[d].broadcast
  PROVE  ReachesEveryone'
  BY DEF ReachesEveryone

\* A scheduler's step that leaves the world and the records alone.
LEMMA RunStep ==
  ASSUME IInv, NEW s \in Replicas,
         run' = [run EXCEPT ![s] = run'[s]], run'[s] \in Runs,
         Covered(run'[s], active \cap wanting, notices'),
         UNCHANGED <<today, active, wanting, challenge, owed>>, notices \subseteq notices'
  PROVE  IInv'
<1>1. ReachesEveryone'
  BY OwedStands DEF IInv
<1>2. /\ run' \in [Replicas -> Runs]
      /\ \A t \in Replicas : Covered(run'[t], active' \cap wanting', notices')
  BY OthersStand
<1>3. TypesHold'
  BY <1>2 DEF IInv, TypesHold
<1> QED
  BY <1>1, <1>2, <1>3 DEF IInv

\* A run that begins its broadcast has told nobody yet.
LEMMA BeginsCovered ==
  ASSUME NEW r \in Runs, NEW wanted \in SUBSET Users, NEW told,
         r.step = "broadcast", r.cursor = 0, r.reach \subseteq wanted
  PROVE  Covered(r, wanted, told)
<1>1. \A u \in r.reach : u \in Nat /\ u > 0
  BY UsersAreNumbers
<1>2. \A u \in r.reach : ~(u <= r.cursor)
  BY <1>1
<1> QED
  BY <1>2 DEF Covered

LEMMA WakeKeeps == ASSUME IInv, NEW s \in Replicas, Wake(s) PROVE IInv'
<1> DEFINE c == challenge[today]
           new == [Asleep EXCEPT !.step = IF c.content = "none" THEN "owner" ELSE "broadcast",
                                 !.day = today,
                                 !.reach = IF c.content = "none" THEN {}
                                             ELSE active \cap wanting]
<1>1. run \in [Replicas -> Runs] /\ today \in Days /\ active \in SUBSET Users
  BY DEF IInv, TypesHold
<1>2. run' = [run EXCEPT ![s] = new]
  BY DEF Wake
<1>3. new \in Runs
  BY <1>1, AsleepIsCovered DEF Runs, Steps, Asleep
<1>4. Covered(new, active \cap wanting, notices)
  <2>1. CASE c.content = "none"
    BY <2>1 DEF Covered, Asleep
  <2>2. CASE c.content # "none"
    <3>1. new.step = "broadcast" /\ new.cursor = 0 /\ new.reach = active \cap wanting
      BY <2>2 DEF Asleep
    <3>2. active \cap wanting \in SUBSET Users
      BY <1>1
    <3> HIDE DEF new
    <3> QED
      BY <1>3, <3>1, <3>2, BeginsCovered
  <2> QED
    BY <2>1, <2>2
<1>5. UNCHANGED <<active, wanting, notices, challenge, owed, today>>
  BY DEF Wake, world
<1> HIDE DEF new
<1> QED
  BY <1>1, <1>2, <1>3, <1>4, <1>5, RunStep

\* A step before the broadcast.
LEMMA EarlyCovered ==
  ASSUME NEW r, NEW wanted, NEW told, r.reach \subseteq wanted,
         r.step \in {"asleep", "owner", "generate", "store"}
  PROVE  Covered(r, wanted, told)
  BY DEF Covered

LEMMA FindOwnerKeeps == ASSUME IInv, NEW s \in Replicas, FindOwner(s) PROVE IInv'
<1>1. run \in [Replicas -> Runs] /\ Covered(run[s], active \cap wanting, notices)
  BY DEF IInv, TypesHold
<1>2. UNCHANGED <<active, wanting, notices, challenge, owed, today>>
  BY DEF FindOwner, world
<1>3. CASE owner
  <2> DEFINE new == [run[s] EXCEPT !.step = "generate"]
  <2>1. run' = [run EXCEPT ![s] = new]
    BY <1>3 DEF FindOwner, StepTo
  <2>2. new \in Runs /\ new.reach \subseteq active \cap wanting /\ new.step = "generate"
    BY <1>1 DEF Runs, Steps, Covered
  <2> HIDE DEF new
  <2> QED
    BY <1>1, <1>2, <2>1, <2>2, EarlyCovered, RunStep
<1>4. CASE ~owner
  <2>1. run' = [run EXCEPT ![s] = Asleep]
    BY <1>4 DEF FindOwner
  <2> QED
    BY <1>1, <1>2, <2>1, AsleepIsCovered, RunStep
<1> QED
  BY <1>3, <1>4

LEMMA GenerateKeeps == ASSUME IInv, NEW s \in Replicas, Generate(s) PROVE IInv'
<1>1. run \in [Replicas -> Runs] /\ Covered(run[s], active \cap wanting, notices)
  BY DEF IInv, TypesHold
<1>2. UNCHANGED <<active, wanting, notices, challenge, owed, today>>
  BY DEF Generate, world
<1>3. PICK content \in {"good", "refused"} : Generated(s, content)
  BY DEF Generate
<1> DEFINE new == [run[s] EXCEPT !.content = content, !.step = "store"]
<1>4. run' = [run EXCEPT ![s] = new]
  BY <1>1, <1>3 DEF Generated
<1>5. new \in Runs /\ new.reach \subseteq active \cap wanting /\ new.step = "store"
  BY <1>1 DEF Runs, Steps, Contents, Covered
<1> HIDE DEF new
<1> QED
  BY <1>1, <1>2, <1>4, <1>5, EarlyCovered, RunStep

LEMMA StoreKeeps == ASSUME IInv, NEW s \in Replicas, Store(s) PROVE IInv'
<1> DEFINE d == run[s].day
           record == [content |-> run[s].content, broadcast |-> FALSE,
                      status |-> IF AutoPublish THEN "published" ELSE "draft"]
           new == [Asleep EXCEPT !.step = "broadcast", !.day = d, !.reach = active \cap wanting]
<1>1. /\ run \in [Replicas -> Runs] /\ challenge \in [Days -> Records]
      /\ active \in SUBSET Users /\ d \in Days /\ run[s] \in Runs
  BY DEF IInv, TypesHold, Runs
<1>2. UNCHANGED <<active, wanting, notices, owed, today>>
  BY DEF Store, world
<1>3. challenge' = [challenge EXCEPT ![d] = SetOnInsert(@, record)]
  BY DEF Store
<1>4. record \in Records /\ ~record.broadcast
  BY <1>1 DEF Runs, Records, ChallengeStatuses
<1>5. challenge' \in [Days -> Records]
  BY <1>1, <1>3, <1>4 DEF SetOnInsert
<1>6. run'[s] \in Runs /\ Covered(run'[s], active \cap wanting, notices')
      /\ run' = [run EXCEPT ![s] = run'[s]]
  <2>1. CASE AutoPublish
    <3>1. run' = [run EXCEPT ![s] = new]
      BY <2>1 DEF Store
    <3>2. new.step = "broadcast" /\ new.cursor = 0 /\ new.reach = active \cap wanting
      BY DEF Asleep
    <3>3. new \in Runs
      BY <1>1, AsleepIsCovered DEF Runs, Steps, Asleep
    <3>4. active \cap wanting \in SUBSET Users
      BY <1>1
    <3> HIDE DEF new
    <3> QED
      BY <1>1, <3>1, <3>2, <3>3, <3>4, BeginsCovered
  <2>2. CASE ~AutoPublish
    <3>1. run' = [run EXCEPT ![s] = Asleep]
      BY <2>2 DEF Store
    <3> QED
      BY <1>1, <3>1, AsleepIsCovered
  <2> QED
    BY <2>1, <2>2
<1>7. /\ run' \in [Replicas -> Runs]
      /\ \A t \in Replicas : Covered(run'[t], active' \cap wanting', notices')
  BY <1>2, <1>6, OthersStand
<1>8. ReachesEveryone'
  <2> SUFFICES ASSUME NEW e \in Days, challenge'[e].broadcast
               PROVE  \A u \in owed[e] : <<u, e>> \in notices
    BY <1>2 DEF ReachesEveryone
  <2>1. challenge[e].broadcast
    <3>1. e # d => challenge'[e] = challenge[e]
      BY <1>1, <1>3
    <3>2. challenge'[d] = SetOnInsert(challenge[d], record)
      BY <1>1, <1>3
    <3>3. challenge'[d] = challenge[d] \/ challenge'[d] = record
      BY <3>2 DEF SetOnInsert
    <3> QED
      BY <1>4, <3>1, <3>3
  <2> QED
    BY <2>1 DEF IInv, ReachesEveryone
<1> QED
  BY <1>2, <1>5, <1>7, <1>8 DEF IInv, TypesHold

\* What a page of the broadcast is: users after the cursor, from below; nobody comes after
\* a page that is not full.
LEMMA PageFacts ==
  ASSUME IInv, NEW cursor \in Nat, NEW page, page = FirstPage(After(cursor))
  PROVE  /\ page \in SUBSET active /\ IsFiniteSet(page) /\ Cardinality(page) \in Nat
         /\ page = {} => After(cursor) = {}
         /\ page # {} => /\ Max(page) \in Nat
                         /\ \A u \in After(cursor) : u <= Max(page) => u \in page
         /\ page # {} /\ Cardinality(page) < PageSize =>
              \A u \in After(cursor) : u <= Max(page)
<1> DEFINE rest == After(cursor)
<1>1. active \in SUBSET Users
  BY DEF IInv, TypesHold
<1>2. rest \in SUBSET active
  BY DEF After
<1>3. rest \in SUBSET Nat
  BY <1>1, <1>2, UsersAreNumbers
<1>4. IsFiniteSet(rest)
  BY <1>1, <1>2, UsersAreNumbers, FS_Subset
<1> HIDE DEF rest
<1>5. page = FirstPage(rest)
  BY DEF rest
<1>6. page \in SUBSET rest
  BY <1>5 DEF FirstPage
<1>7. IsFiniteSet(page) /\ Cardinality(page) \in Nat
  BY <1>4, <1>6, FS_Subset, FS_CardinalityType
<1>8. Cardinality(page) < PageSize => page = rest
  BY <1>3, <1>4, <1>5, ShortPageIsAll
<1>9. page = {} => rest = {}
  <2>1. Cardinality({}) = 0
    BY FS_EmptySet
  <2> QED
    BY <2>1, <1>8, DailyAssumption
<1>10. page # {} => Max(page) \in page /\ \A u \in page : u <= Max(page)
  <2>1. page \in SUBSET Nat
    BY <1>3, <1>6
  <2> QED
    BY <2>1, <1>7, GreatestIsMax
<1>11. page # {} => \A u \in rest : u <= Max(page) => u \in page
  BY <1>3, <1>5, <1>10, PageIsInitial
<1> QED
  BY <1>2, <1>3, <1>6, <1>7, <1>8, <1>9, <1>10, <1>11 DEF rest

LEMMA NextPageKeeps == ASSUME IInv, NEW s \in Replicas, NextPage(s) PROVE IInv'
<1> DEFINE cursor == run[s].cursor
           page == FirstPage(After(cursor))
<1>1. /\ run \in [Replicas -> Runs] /\ run[s] \in Runs /\ cursor \in Nat
      /\ active \in SUBSET Users /\ Covered(run[s], active \cap wanting, notices)
  BY DEF IInv, TypesHold, Runs
<1>2. UNCHANGED <<active, wanting, notices, challenge, owed, today>>
  BY DEF NextPage, world
<1>3. run[s].step = "broadcast" /\ run[s].page = {}
  BY DEF NextPage
<1>4. \A u \in run[s].reach : u \in active /\ u \in Nat
  BY <1>1, UsersAreNumbers DEF Covered
<1>5. \A u \in run[s].reach : u <= cursor => <<u, run[s].day>> \in notices
  BY <1>1, <1>3 DEF Covered
<1>6. \A u \in run[s].reach : ~(u <= cursor) => u \in After(cursor)
  BY <1>1, <1>4 DEF After
<1>7. /\ page \in SUBSET active /\ IsFiniteSet(page) /\ Cardinality(page) \in Nat
      /\ page = {} => After(cursor) = {}
      /\ page # {} => /\ Max(page) \in Nat
                      /\ \A u \in After(cursor) : u <= Max(page) => u \in page
      /\ page # {} /\ Cardinality(page) < PageSize =>
           \A u \in After(cursor) : u <= Max(page)
  BY <1>1, PageFacts
<1>8. CASE page = {}
  <2> DEFINE new == [run[s] EXCEPT !.step = "mark"]
  <2>1. run' = [run EXCEPT ![s] = new]
    BY <1>8 DEF NextPage, StepTo
  <2>2. /\ new \in Runs /\ new.step = "mark" /\ new.reach = run[s].reach
        /\ new.day = run[s].day
    BY <1>1 DEF Runs, Steps
  <2>3. \A u \in run[s].reach : <<u, run[s].day>> \in notices
    BY <1>5, <1>6, <1>7, <1>8
  <2>4. run[s].reach \subseteq active \cap wanting
    BY <1>1 DEF Covered
  <2> HIDE DEF new
  <2>5. Covered(new, active \cap wanting, notices)
    BY <2>2, <2>3, <2>4 DEF Covered
  <2> QED
    BY <1>1, <1>2, <2>1, <2>2, <2>5, RunStep
<1>9. CASE page # {}
  <2> DEFINE step == IF Cardinality(page) < PageSize THEN "last" ELSE "broadcast"
             new == [run[s] EXCEPT !.page = page, !.cursor = Max(page), !.step = step]
  <2>1. run' = [run EXCEPT ![s] = new]
    BY <1>1, <1>3, <1>9 DEF NextPage, Runs
  <2>2. /\ new.step = step /\ new.reach = run[s].reach /\ new.day = run[s].day
        /\ new.page = page /\ new.cursor = Max(page)
    BY <1>1 DEF Runs
  <2>3. new \in Runs
    <3>1. step \in Steps
      BY DEF Steps
    <3>2. page \in SUBSET Users
      BY <1>1, <1>7
    <3> HIDE DEF step, page
    <3> QED
      BY <1>1, <1>7, <1>9, <3>1, <3>2 DEF Runs
  <2>4. ASSUME NEW u \in run[s].reach, u <= Max(page), u \notin page
        PROVE  <<u, run[s].day>> \in notices
    <3>1. u \notin After(cursor)
      BY <1>7, <1>9, <2>4
    <3> QED
      BY <1>5, <1>6, <3>1
  <2>5. ASSUME step = "last", NEW u \in run[s].reach PROVE u <= Max(page)
    <3>1. Cardinality(page) < PageSize
      BY <2>5
    <3>2. CASE u \in After(cursor)
      BY <1>7, <1>9, <3>1, <3>2
    <3>3. CASE u \notin After(cursor)
      <4>1. u <= cursor /\ u \in Nat
        BY <1>4, <1>6, <3>3
      <4>2. PICK v \in page : TRUE
        BY <1>9
      <4>3. v \in After(cursor) /\ v \in Nat
        BY <1>1, <1>7, UsersAreNumbers DEF FirstPage
      <4>4. v > cursor /\ v <= Max(page)
        BY <1>7, <1>9, <3>1, <4>3 DEF After
      <4> QED
        BY <1>1, <1>7, <1>9, <4>1, <4>3, <4>4
    <3> QED
      BY <3>2, <3>3
  <2>6. run[s].reach \subseteq active \cap wanting
    BY <1>1 DEF Covered
  <2>7. step # "mark"
    OBVIOUS
  <2> HIDE DEF new, step, page
  <2>8. Covered(new, active \cap wanting, notices)
    BY <2>2, <2>4, <2>5, <2>6, <2>7 DEF Covered
  <2> QED
    BY <1>1, <1>2, <2>1, <2>2, <2>3, <2>8, RunStep
<1> QED
  BY <1>8, <1>9

LEMMA DispatchKeeps == ASSUME IInv, NEW s \in Replicas, Dispatch(s) PROVE IInv'
<1>1. /\ run \in [Replicas -> Runs] /\ run[s] \in Runs
      /\ Covered(run[s], active \cap wanting, notices)
  BY DEF IInv, TypesHold
<1>2. UNCHANGED <<active, wanting, challenge, owed, today>>
  BY DEF Dispatch, world
<1>3. run[s].step \in {"broadcast", "last"}
  BY DEF Dispatch
<1>4. PICK u \in run[s].page :
        /\ run' = [run EXCEPT ![s].page = @ \ {u},
                              ![s].step = IF @ = "last" /\ run[s].page = {u} THEN "mark" ELSE @]
        /\ notices' = IF u \in wanting THEN notices \cup {<<u, run[s].day>>}
                        ELSE notices
  BY DEF Dispatch
<1> DEFINE step == IF run[s].step = "last" /\ run[s].page = {u} THEN "mark" ELSE run[s].step
           new == [run[s] EXCEPT !.page = run[s].page \ {u}, !.step = step]
<1>5. run' = [run EXCEPT ![s] = new]
  BY <1>1, <1>4 DEF Runs
<1>6. /\ new.step = step /\ new.reach = run[s].reach /\ new.day = run[s].day
      /\ new.page = run[s].page \ {u} /\ new.cursor = run[s].cursor
  BY <1>1 DEF Runs
<1>7. new \in Runs
  <2>1. step \in Steps
    BY <1>1 DEF Runs, Steps
  <2> HIDE DEF step
  <2> QED
    BY <1>1, <2>1 DEF Runs
<1>8. run[s].reach \subseteq active \cap wanting
  BY <1>1 DEF Covered
<1>9. notices \subseteq notices' /\ (u \in run[s].reach => <<u, run[s].day>> \in notices')
  BY <1>4, <1>8
<1>10. \A v \in run[s].reach : (v <= run[s].cursor /\ v \notin run[s].page \ {u}) =>
         <<v, run[s].day>> \in notices'
  BY <1>1, <1>3, <1>9 DEF Covered
<1>11. run[s].step = "last" => \A v \in run[s].reach : v <= run[s].cursor
  BY <1>1 DEF Covered
<1>12. step = "mark" => \A v \in run[s].reach : <<v, run[s].day>> \in notices'
  BY <1>3, <1>10, <1>11
<1>13. step = "last" => run[s].step = "last"
  OBVIOUS
<1> HIDE DEF new, step
<1>14. Covered(new, active \cap wanting, notices')
  BY <1>6, <1>8, <1>10, <1>11, <1>12, <1>13 DEF Covered
<1> QED
  BY <1>1, <1>2, <1>5, <1>7, <1>9, <1>14, RunStep

LEMMA MarkKeeps == ASSUME IInv, NEW s \in Replicas, Mark(s) PROVE IInv'
<1> DEFINE d == run[s].day
<1>1. /\ run \in [Replicas -> Runs] /\ challenge \in [Days -> Records]
      /\ owed \in [Days -> SUBSET Users]
      /\ run[s] \in Runs /\ d \in Days /\ run[s].reach \in SUBSET Users
      /\ Covered(run[s], active \cap wanting, notices)
  BY DEF IInv, TypesHold, Runs
<1>2. UNCHANGED <<active, wanting, notices, today>> /\ run[s].step = "mark"
  BY DEF Mark, world
<1>3. run' = [run EXCEPT ![s] = Asleep]
  BY DEF Mark
<1>4. /\ run' \in [Replicas -> Runs]
      /\ \A t \in Replicas : Covered(run'[t], active' \cap wanting', notices')
  BY <1>1, <1>2, <1>3, AsleepIsCovered, OthersStand
<1>5. /\ challenge' = [challenge EXCEPT ![d].broadcast = TRUE]
      /\ owed' = IF challenge[d].broadcast THEN owed ELSE [owed EXCEPT ![d] = run[s].reach]
  BY DEF Mark
<1>6. challenge' \in [Days -> Records]
  BY <1>1, <1>5 DEF Records
<1>7. owed' \in [Days -> SUBSET Users]
  BY <1>1, <1>5
<1>8. ReachesEveryone'
  <2> SUFFICES ASSUME NEW e \in Days, challenge'[e].broadcast, NEW u \in owed'[e]
               PROVE  <<u, e>> \in notices
    BY <1>2 DEF ReachesEveryone
  <2>1. CASE e = d /\ ~challenge[d].broadcast
    <3>1. u \in run[s].reach
      BY <1>1, <1>5, <2>1
    <3> QED
      BY <1>1, <1>2, <2>1, <3>1 DEF Covered
  <2>2. CASE e # d \/ challenge[d].broadcast
    <3>1. u \in owed[e]
      BY <1>1, <1>5, <2>2
    <3>2. challenge[e].broadcast
      <4>1. e # d => challenge'[e] = challenge[e]
        BY <1>1, <1>5
      <4> QED
        BY <2>2, <4>1
    <3> QED
      BY <3>1, <3>2 DEF IInv, ReachesEveryone
  <2> QED
    BY <2>1, <2>2
<1> QED
  BY <1>2, <1>4, <1>6, <1>7, <1>8 DEF IInv, TypesHold

LEMMA FailKeeps == ASSUME IInv, NEW s \in Replicas, Fail(s) PROVE IInv'
<1>1. run \in [Replicas -> Runs]
  BY DEF IInv, TypesHold
<1>2. /\ run' = [run EXCEPT ![s] = Asleep]
      /\ UNCHANGED <<today, active, wanting, notices, challenge, owed>>
  BY DEF Fail
<1> QED
  BY <1>1, <1>2, AsleepIsCovered, RunStep

\* Only the user who changed is no longer owed what is under way.
LEMMA ChangeUserKeeps == ASSUME IInv, ChangeUser PROVE IInv'
<1>1. PICK u \in Users :
        /\ Forget(u)
        /\ \/ active' = Toggle(active, u) /\ UNCHANGED wanting
           \/ wanting' = Toggle(wanting, u) /\ UNCHANGED active
  BY DEF ChangeUser
<1>2. /\ run \in [Replicas -> Runs] /\ active \in SUBSET Users /\ wanting \in SUBSET Users
      /\ \A s \in Replicas : Covered(run[s], active \cap wanting, notices)
  BY DEF IInv, TypesHold
<1>3. UNCHANGED <<today, challenge, notices, owed>>
  BY DEF ChangeUser
<1>4. active' \in SUBSET Users /\ wanting' \in SUBSET Users
  BY <1>1, <1>2 DEF Toggle
<1>5. \A v \in active \cap wanting : v # u => v \in active' \cap wanting'
  BY <1>1 DEF Toggle
<1> DEFINE new(s) == [run[s] EXCEPT !.reach = @ \ {u}]
<1>6. run' = [s \in Replicas |-> new(s)]
  BY <1>1 DEF Forget
<1>7. ASSUME NEW s \in Replicas
      PROVE  new(s) \in Runs /\ Covered(new(s), active' \cap wanting', notices)
  <2>1. run[s] \in Runs /\ Covered(run[s], active \cap wanting, notices)
    BY <1>2
  <2>2. /\ new(s).step = run[s].step /\ new(s).day = run[s].day
        /\ new(s).cursor = run[s].cursor /\ new(s).page = run[s].page
        /\ new(s).reach = run[s].reach \ {u}
    BY <2>1 DEF Runs
  <2>3. new(s) \in Runs
    BY <2>1 DEF Runs
  <2> HIDE DEF new
  <2>4. new(s).reach \subseteq active' \cap wanting'
    BY <1>5, <2>1, <2>2 DEF Covered
  <2> QED
    BY <2>1, <2>2, <2>3, <2>4 DEF Covered
<1> HIDE DEF new
<1>8. /\ run' \in [Replicas -> Runs]
      /\ \A s \in Replicas : Covered(run'[s], active' \cap wanting', notices)
  BY <1>6, <1>7
<1>9. ReachesEveryone'
  BY <1>3 DEF IInv, ReachesEveryone
<1> QED
  BY <1>3, <1>4, <1>8, <1>9 DEF IInv, TypesHold

\* The steps of the world that touch no run.
LEMMA WorldKeeps ==
  ASSUME IInv, NextDay \/ ChangeOwner \/ ChangeStatus \/ UNCHANGED dailyVars
  PROVE  IInv'
<1>1. /\ today \in Days /\ challenge \in [Days -> Records]
      /\ \A s \in Replicas : Covered(run[s], active \cap wanting, notices)
  BY DEF IInv, TypesHold
<1>2. UNCHANGED <<active, wanting, run, notices, owed>>
  BY DEF NextDay, ChangeOwner, ChangeStatus, dailyVars
<1>3. today' \in Days
  <2>1. CASE NextDay
    BY <1>1, <2>1, DailyAssumption DEF NextDay, Days
  <2>2. CASE ChangeOwner \/ ChangeStatus \/ UNCHANGED dailyVars
    BY <1>1, <2>2 DEF ChangeOwner, ChangeStatus, dailyVars
  <2> QED
    BY <2>1, <2>2
<1>4. /\ challenge' \in [Days -> Records]
      /\ \A d \in Days : challenge'[d].broadcast = challenge[d].broadcast
  <2>1. CASE ChangeStatus
    <3>1. PICK d \in Days, st \in {"published", "archived"} :
            challenge' = [challenge EXCEPT ![d].status = st]
      BY <2>1 DEF ChangeStatus
    <3> QED
      BY <1>1, <3>1 DEF Records, ChallengeStatuses
  <2>2. CASE NextDay \/ ChangeOwner \/ UNCHANGED dailyVars
    BY <1>1, <2>2 DEF NextDay, ChangeOwner, dailyVars
  <2> QED
    BY <2>1, <2>2
<1>5. ReachesEveryone'
  BY <1>2, <1>4, OwedStands DEF IInv
<1> QED
  BY <1>1, <1>2, <1>3, <1>4, <1>5 DEF IInv, TypesHold

-----------------------------------------------------------------------------
(* Theorems.                                                               *)

\* The invariant holds at every moment.
THEOREM DailyInvariant == DailySpec => []IInv
<1>1. IInv /\ [DailyNext]_dailyVars => IInv'
  <2> SUFFICES ASSUME IInv, [DailyNext]_dailyVars PROVE IInv'
    OBVIOUS
  <2>1. CASE NextDay \/ ChangeOwner \/ ChangeStatus \/ UNCHANGED dailyVars
    BY <2>1, WorldKeeps
  <2>2. CASE ChangeUser
    BY <2>2, ChangeUserKeeps
  <2>3. CASE \E s \in Replicas : Work(s) \/ Fail(s)
    BY <2>3, WakeKeeps, FindOwnerKeeps, GenerateKeeps, StoreKeeps, NextPageKeeps,
       DispatchKeeps, MarkKeeps, FailKeeps DEF Work
  <2> QED
    BY <2>1, <2>2, <2>3 DEF DailyNext
<1> QED
  BY Initially, <1>1, PTL DEF DailySpec

\* "notificationBroadcastAt" is true: whoever stayed active and wanting through the
\* broadcast that set it has the notification of the day, whatever replica's run died or
\* raced it, however many pages it took.
THEOREM AllAreTold == DailySpec => []ReachesEveryone
<1>1. IInv => ReachesEveryone
  BY DEF IInv
<1> QED
  BY <1>1, DailyInvariant, PTL

\* The questions of a day never change once stored, whoever else generated some.
THEOREM QuestionsStay == DailySpec => ContentIsStable
<1> DEFINE Stable == \A d \in Days : challenge[d].content # "none" =>
                       challenge'[d].content = challenge[d].content
<1>1. IInv /\ [DailyNext]_dailyVars => [Stable]_challenge
  <2> SUFFICES ASSUME IInv, DailyNext, challenge' # challenge PROVE Stable
    BY DEF dailyVars
  <2>1. challenge \in [Days -> Records] /\ run \in [Replicas -> Runs]
    BY DEF IInv, TypesHold
  <2>2. CASE ChangeStatus
    <3>1. PICK d \in Days, st \in {"published", "archived"} :
            challenge' = [challenge EXCEPT ![d].status = st]
      BY <2>2 DEF ChangeStatus
    <3> QED
      BY <2>1, <3>1 DEF Records
  <2>3. ASSUME NEW s \in Replicas, Store(s) PROVE Stable
    <3> SUFFICES ASSUME NEW d \in Days, challenge[d].content # "none"
                 PROVE  challenge'[d] = challenge[d]
      OBVIOUS
    <3> QED
      BY <2>1, <2>3 DEF Store, SetOnInsert
  <2>4. ASSUME NEW s \in Replicas, Mark(s) PROVE Stable
    <3>1. challenge' = [challenge EXCEPT ![run[s].day].broadcast = TRUE]
      BY <2>4 DEF Mark
    <3> QED
      BY <2>1, <3>1 DEF Records
  <2>5. ASSUME NEW s \in Replicas,
               Wake(s) \/ FindOwner(s) \/ Generate(s) \/ NextPage(s) \/ Dispatch(s) \/ Fail(s)
        PROVE  challenge' = challenge
    BY <2>5 DEF Wake, FindOwner, Generate, NextPage, Dispatch, Fail
  <2>6. NextDay \/ ChangeUser \/ ChangeOwner => challenge' = challenge
    BY DEF NextDay, ChangeUser, ChangeOwner
  <2> QED
    BY <2>2, <2>3, <2>4, <2>5, <2>6 DEF DailyNext, Work
<1> QED
  BY <1>1, DailyInvariant, PTL DEF DailySpec, ContentIsStable

-----------------------------------------------------------------------------
(* Leaving Verith: for any accounts, media, schedulers and exports, with   *)
(* any administrator, failures and deaths of processes.                    *)

ErasureSpec == ErasureInit /\ [][ErasureNext]_erasureVars

\* The inductive invariant.

AccountStatuses == {"ACTIVE", "DELETION_PENDING", "SUSPENDED", "DELETED"}
AccountRecords == [status : AccountStatuses, due : BOOLEAN, claimed : BOOLEAN, named : BOOLEAN]
ExportRecords == [status : {"QUEUED", "PROCESSING", "FAILED", "COMPLETED"}, tries : Int]
RunFields == {"at", "todo", "of", "files", "drop"}

ErasureTypes ==
  /\ accounts \in [Accounts -> AccountRecords]
  /\ DOMAIN files = Accounts /\ DOMAIN assets = Accounts
  /\ data \in [Accounts -> SUBSET Collections]
  /\ exports \in [Accounts -> Seq(ExportRecords)]
  /\ DOMAIN retention = Retainers
  /\ \A s \in Retainers : DOMAIN retention[s] = RunFields

\* A run works on accounts that are due, and on one it has claimed; what it has dropped of
\* that one is gone, and the media before anything else.
RunHolds(s) ==
  /\ \A a \in retention[s].todo : a \in Accounts /\ accounts[a].due
  /\ Erasing(s) =>
       LET a == Erased(s)
       IN /\ a \in Accounts /\ accounts[a].due /\ accounts[a].claimed /\ <<a, 0>> \notin dead
          /\ RunAt(s, "media") => files[a] \subseteq retention[s].files
          /\ RunAt(s, "drop") =>
               /\ files[a] = {}
               /\ "media_assets" \notin retention[s].drop => assets[a] = {}
               /\ "privacy_jobs" \notin retention[s].drop /\ accounts[a].status = "DELETION_PENDING"
                    => exports[a] = <<>>
               /\ \A c \in {"verifications", "sessions"} : c \in data[a] => c \in retention[s].drop
               /\ "reports" \in data[a] =>
                    "reports" \in retention[s].drop \/ a \in torn

\* One run at a time erases an account.
OneRun == \A s, t \in Retainers : Erasing(s) /\ Erasing(t) /\ Erased(s) = Erased(t) => s = t

\* An account that is due asks for no export; reports are left without their verifications
\* only where a run drops them, died over it or failed; an erased account has nothing.
AccountHolds(a) ==
  /\ files[a] \subseteq assets[a]
  /\ <<a, 0>> \in dead => accounts[a].claimed
  /\ accounts[a].status = "DELETION_PENDING" /\ accounts[a].due => a \notin asking
  /\ "reports" \in data[a] /\ "verifications" \notin data[a] =>
       \/ a \in torn \/ <<a, 0>> \in dead
       \/ \E s \in Retainers : RunAt(s, "drop") /\ Erased(s) = a
  /\ ~accounts[a].named =>
       /\ files[a] = {} /\ assets[a] = {} /\ exports[a] = <<>> /\ a \notin asking
       /\ a \notin torn => data[a] = {}

ErasureInv ==
  /\ ErasureTypes /\ OneRun
  /\ \A s \in Retainers : RunHolds(s)
  /\ \A a \in Accounts : AccountHolds(a)

LEMMA ErasureStarts == ErasureInit => ErasureInv
<1> SUFFICES ASSUME ErasureInit PROVE ErasureInv
  OBVIOUS
<1> USE DEF ErasureInit
<1>1. \A s \in Retainers : retention[s] = NoRun
  OBVIOUS
<1>2. \A s \in Retainers : retention[s].at = "off" /\ retention[s].todo = {}
                           /\ DOMAIN retention[s] = RunFields
  BY <1>1 DEF NoRun, RunFields
<1>3. \A a \in Accounts : accounts[a] = [status |-> "ACTIVE", due |-> FALSE, claimed |-> FALSE, named |-> TRUE]
  OBVIOUS
<1>4. ErasureTypes
  <2>1. accounts \in [Accounts -> AccountRecords]
    BY DEF AccountRecords, AccountStatuses
  <2>2. data \in [Accounts -> SUBSET Collections]
    BY ErasureAssumption
  <2>3. exports \in [Accounts -> Seq(ExportRecords)]
    <3>1. <<>> \in Seq(ExportRecords)
      OBVIOUS
    <3> QED
      BY <3>1
  <2>4. DOMAIN files = Accounts /\ DOMAIN assets = Accounts /\ DOMAIN retention = Retainers
    OBVIOUS
  <2> QED
    BY <1>2, <2>1, <2>2, <2>3, <2>4 DEF ErasureTypes
<1>5. OneRun
  BY <1>2 DEF OneRun, Erasing
<1>6. \A s \in Retainers : RunHolds(s)
  BY <1>2 DEF RunHolds, Erasing
<1>7. \A a \in Accounts : AccountHolds(a)
  BY <1>3, ErasureAssumption DEF AccountHolds
<1> QED
  BY <1>4, <1>5, <1>6, <1>7 DEF ErasureInv

\* What a step may do to the run of another scheduler, and to the account it erases.
Leaves(t) ==
  /\ retention'[t] = retention[t]
  /\ \A a \in Accounts : accounts[a].due => accounts'[a].due
  /\ Erasing(t) =>
       LET a == Erased(t)
       IN /\ accounts'[a].claimed /\ <<a, 0>> \notin dead'
          /\ accounts'[a].status = "DELETION_PENDING" => accounts[a].status = "DELETION_PENDING"
          /\ accounts'[a].status = "DELETION_PENDING" /\ exports[a] = <<>> => exports'[a] = <<>>
          /\ files'[a] \subseteq files[a] /\ assets'[a] \subseteq assets[a]
          /\ data'[a] \subseteq data[a] /\ torn \subseteq torn'

LEMMA RunLeft ==
  ASSUME NEW t \in Retainers, RunHolds(t), Leaves(t)
  PROVE  RunHolds(t)'
<1>1. \A stage : RunAt(t, stage)' <=> RunAt(t, stage)
  BY DEF Leaves, RunAt
<1>2. Erased(t)' = Erased(t) /\ (Erasing(t)' <=> Erasing(t))
  BY DEF Leaves, Erased, Erasing
<1>3. \A a \in retention'[t].todo : a \in Accounts /\ accounts'[a].due
  BY DEF Leaves, RunHolds
<1>4. ASSUME Erasing(t)
      PROVE  LET a == Erased(t)
             IN /\ a \in Accounts /\ accounts'[a].due /\ accounts'[a].claimed /\ <<a, 0>> \notin dead'
                /\ RunAt(t, "media") => files'[a] \subseteq retention'[t].files
                /\ RunAt(t, "drop") =>
                     /\ files'[a] = {}
                     /\ "media_assets" \notin retention'[t].drop => assets'[a] = {}
                     /\ "privacy_jobs" \notin retention'[t].drop /\ accounts'[a].status = "DELETION_PENDING"
                          => exports'[a] = <<>>
                     /\ \A c \in {"verifications", "sessions"} : c \in data'[a] => c \in retention'[t].drop
                     /\ "reports" \in data'[a] =>
                          "reports" \in retention'[t].drop \/ a \in torn'
  BY <1>4 DEF Leaves, RunHolds
<1> QED
  BY <1>1, <1>2, <1>3, <1>4 DEF RunHolds

\* What a step may do to an account it does not work on.
Spares(a) ==
  /\ accounts'[a] = accounts[a] /\ files'[a] = files[a] /\ assets'[a] = assets[a]
  /\ data'[a] = data[a] /\ exports'[a] = exports[a]
  /\ a \in asking' => a \in asking
  /\ a \in torn => a \in torn'
  /\ <<a, 0>> \in dead => <<a, 0>> \in dead'
  /\ <<a, 0>> \in dead' => <<a, 0>> \in dead \/ accounts[a].claimed
  /\ \A s \in Retainers : RunAt(s, "drop") /\ Erased(s) = a =>
       \/ RunAt(s, "drop")' /\ Erased(s)' = a
       \/ a \in torn' \/ <<a, 0>> \in dead'

LEMMA AccountSpared ==
  ASSUME NEW a \in Accounts, AccountHolds(a), Spares(a)
  PROVE  AccountHolds(a)'
BY DEF AccountHolds, Spares

\* The owner, the grace period and an administrator: an account that is due does not
\* become pending again.
LEMMA AccountSteps ==
  ASSUME ErasureInv, NEW a \in Accounts,
         AskToLeave(a) \/ StayAfterAll(a) \/ GraceEnds(a) \/ AdminChangesStatus(a)
  PROVE  ErasureInv'
<1>0. UNCHANGED <<files, assets, data, exports, asking, retention, torn, dead>>
  BY DEF AskToLeave, StayAfterAll, GraceEnds, AdminChangesStatus, Elsewhere, kept, exporting, erasureHistory
<1>1. ErasureTypes /\ OneRun /\ (\A s \in Retainers : RunHolds(s)) /\ (\A b \in Accounts : AccountHolds(b))
  BY DEF ErasureInv
<1>2. accounts \in [Accounts -> AccountRecords]
  BY <1>1 DEF ErasureTypes
<1>3. PICK r \in AccountRecords : accounts' = [accounts EXCEPT ![a] = r]
  <2> DEFINE b == accounts[a]
  <2>1. b \in AccountRecords
    BY <1>2
  <2>2. CASE AskToLeave(a)
    BY <2>1, <2>2, <1>2 DEF AskToLeave, AccountRecords, AccountStatuses
  <2>3. CASE StayAfterAll(a)
    BY <2>1, <2>3, <1>2 DEF StayAfterAll, AccountRecords, AccountStatuses
  <2>4. CASE GraceEnds(a)
    BY <2>1, <2>4, <1>2 DEF GraceEnds, AccountRecords, AccountStatuses
  <2>5. CASE AdminChangesStatus(a)
    BY <2>1, <2>5, <1>2 DEF AdminChangesStatus, AccountRecords, AccountStatuses
  <2> QED
    BY <2>2, <2>3, <2>4, <2>5
<1>4. accounts'[a] = r /\ \A b \in Accounts : b # a => accounts'[b] = accounts[b]
  BY <1>2, <1>3
<1>5. /\ r.claimed = accounts[a].claimed /\ r.named = accounts[a].named
      /\ accounts[a].due => r.due
      /\ r.status = "DELETION_PENDING" /\ r.due => a \notin asking
      /\ r.status = "DELETION_PENDING" /\ accounts[a].due => accounts[a].status = "DELETION_PENDING"
  <2>1. AccountHolds(a) /\ accounts[a] \in AccountRecords
    BY <1>1, <1>2
  <2>2. CASE AskToLeave(a)
    BY <2>1, <2>2, <1>2, <1>4 DEF AskToLeave, AccountRecords, AccountStatuses
  <2>3. CASE StayAfterAll(a)
    BY <2>1, <2>3, <1>2, <1>4 DEF StayAfterAll, AccountRecords, AccountStatuses
  <2>4. CASE GraceEnds(a)
    BY <2>1, <2>4, <1>2, <1>4 DEF GraceEnds, AccountRecords, AccountStatuses
  <2>5. CASE AdminChangesStatus(a)
    BY <2>1, <2>5, <1>2, <1>4 DEF AdminChangesStatus, AccountRecords, AccountStatuses
  <2> QED
    BY <2>2, <2>3, <2>4, <2>5
<1>6. ErasureTypes'
  BY <1>0, <1>1, <1>2, <1>3 DEF ErasureTypes
<1>7. OneRun'
  BY <1>0, <1>1 DEF OneRun, Erasing, Erased
<1>8. ASSUME NEW s \in Retainers PROVE RunHolds(s)'
  <2>1. Leaves(s)
    <3>1. RunHolds(s)
      BY <1>1
    <3> QED
      BY <1>0, <1>4, <1>5, <3>1 DEF Leaves, RunHolds
  <2> QED
    BY <2>1, <1>1, RunLeft
<1>9. ASSUME NEW b \in Accounts PROVE AccountHolds(b)'
  <2>1. CASE b = a
    <3>1. AccountHolds(a)
      BY <1>1
    <3> QED
      BY <3>1, <2>1, <1>0, <1>4, <1>5 DEF AccountHolds, RunAt, Erased
  <2>2. CASE b # a
    <3>1. Spares(b)
      BY <2>2, <1>0, <1>4 DEF Spares, RunAt, Erased
    <3> QED
      BY <3>1, <1>1, AccountSpared
  <2> QED
    BY <2>1, <2>2
<1> QED
  BY <1>6, <1>7, <1>8, <1>9 DEF ErasureInv

\* One run moves; the others and the accounts they erase are as they were.
OnlyRun(s) ==
  /\ DOMAIN retention' = Retainers
  /\ \A t \in Retainers : t # s => retention'[t] = retention[t]
  /\ DOMAIN retention'[s] = RunFields

\* A step of a run that leaves every record alone, and is not dropping collections.
Quiet == UNCHANGED <<accounts, files, assets, data, exports, asking, torn, dead>>

LEMMA RunSteps ==
  ASSUME ErasureInv, NEW s \in Retainers,
         TakeLock(s) \/ FindDue(s) \/ EndRun(s) \/ ListAssets(s) \/ FindChildren(s)
  PROVE  ErasureInv'
<1>0. Quiet
  BY DEF TakeLock, FindDue, EndRun, ListAssets, FindChildren, Quiet, kept, exporting, erasureHistory
<1>1. ErasureTypes /\ OneRun /\ (\A t \in Retainers : RunHolds(t)) /\ (\A b \in Accounts : AccountHolds(b))
  BY DEF ErasureInv
<1>2. DOMAIN retention = Retainers /\ DOMAIN retention[s] = RunFields
  BY <1>1 DEF ErasureTypes
<1>3. ~RunAt(s, "drop")
  BY DEF TakeLock, FindDue, EndRun, ListAssets, FindChildren, RunAt
<1>4. OnlyRun(s)
  <2>1. CASE TakeLock(s)
    BY <2>1, <1>2 DEF TakeLock, RunGoes, OnlyRun, RunFields
  <2>2. CASE FindDue(s)
    BY <2>2, <1>2 DEF FindDue, OnlyRun, RunFields
  <2>3. CASE EndRun(s)
    BY <2>3, <1>2 DEF EndRun, OnlyRun, RunFields, NoRun
  <2>4. CASE ListAssets(s)
    BY <2>4, <1>2 DEF ListAssets, OnlyRun, RunFields
  <2>5. CASE FindChildren(s)
    BY <2>5, <1>2 DEF FindChildren, OnlyRun, RunFields
  <2> QED
    BY <2>1, <2>2, <2>3, <2>4, <2>5
<1>5. Erasing(s)' => Erasing(s) /\ Erased(s)' = Erased(s)
  <2>1. CASE TakeLock(s)
    BY <2>1, <1>2 DEF TakeLock, RunGoes, RunFields, Erasing
  <2>2. CASE FindDue(s)
    BY <2>2, <1>2 DEF FindDue, RunFields, Erasing
  <2>3. CASE EndRun(s)
    BY <2>3, <1>2 DEF EndRun, RunFields, NoRun, Erasing
  <2>4. CASE ListAssets(s)
    BY <2>4, <1>2 DEF ListAssets, RunFields, Erasing, Erased, RunAt
  <2>5. CASE FindChildren(s)
    BY <2>5, <1>2 DEF FindChildren, RunFields, Erasing, Erased, RunAt
  <2> QED
    BY <2>1, <2>2, <2>3, <2>4, <2>5
<1>6. ErasureTypes'
  <2>1. \A t \in Retainers : DOMAIN retention'[t] = RunFields
    BY <1>1, <1>4 DEF ErasureTypes, OnlyRun
  <2> QED
    BY <2>1, <1>0, <1>1, <1>4 DEF ErasureTypes, OnlyRun, Quiet
<1>7. OneRun'
  <2>1. \A t \in Retainers : Erasing(t)' => Erasing(t) /\ Erased(t)' = Erased(t)
    BY <1>4, <1>5 DEF OnlyRun, Erasing, Erased
  <2> QED
    BY <2>1, <1>1 DEF OneRun
<1>8. RunHolds(s)'
  <2> DEFINE a == Erased(s)
  <2>0. RunHolds(s)
    BY <1>1
  <2>1. CASE TakeLock(s)
    <3>1. retention'[s].todo = retention[s].todo /\ retention'[s].at = "find"
      BY <2>1, <1>2 DEF TakeLock, RunGoes, RunFields
    <3> QED
      BY <3>1, <2>0, <1>0 DEF RunHolds, Erasing, Quiet
  <2>2. CASE FindDue(s)
    <3>1. retention'[s].todo \in Listings /\ retention'[s].at = "next"
      BY <2>2, <1>2 DEF FindDue, RunFields
    <3>2. \A b \in retention'[s].todo : b \in Accounts /\ Due(b)
      BY <3>1 DEF Listings
    <3> QED
      BY <3>1, <3>2, <1>0 DEF RunHolds, Erasing, Quiet, Due
  <2>3. CASE EndRun(s)
    <3>1. retention'[s].todo = {} /\ retention'[s].at = "off"
      BY <2>3, <1>2 DEF EndRun, NoRun
    <3> QED
      BY <3>1 DEF RunHolds, Erasing
  <2>4. CASE ListAssets(s)
    <3>1. /\ retention'[s].todo = retention[s].todo /\ retention'[s].at = "media"
          /\ retention'[s].of = retention[s].of /\ retention'[s].files = assets[a] /\ retention[s].at = "list"
      BY <2>4, <1>2 DEF ListAssets, RunFields, RunAt
    <3>2. Erasing(s) /\ a \in Accounts
      BY <3>1, <2>0 DEF Erasing, RunHolds
    <3>3. files[a] \subseteq assets[a]
      BY <3>2, <1>1 DEF AccountHolds
    <3> QED
      BY <3>1, <3>2, <3>3, <2>0, <1>0 DEF RunHolds, Erasing, Erased, Quiet, RunAt
  <2>5. CASE FindChildren(s)
    <3>1. /\ retention'[s].todo = retention[s].todo /\ retention'[s].at = "drop"
          /\ retention'[s].of = retention[s].of /\ retention[s].files = {} /\ retention[s].at = "media"
          /\ retention'[s].drop = (data[a] \ (IF "verifications" \in data[a] THEN {} ELSE {"reports"}))
                                   \cup {"media_assets", "privacy_jobs"}
      BY <2>5, <1>2 DEF FindChildren, RunFields, RunAt, Acknowledged
    <3>2. Erasing(s) /\ a \in Accounts /\ files[a] = {} /\ accounts[a].claimed /\ <<a, 0>> \notin dead
          /\ accounts[a].due
      BY <3>1, <2>0 DEF Erasing, RunHolds, RunAt
    <3>3. data[a] \subseteq Collections
      BY <3>2, <1>1 DEF ErasureTypes
    <3>4. "reports" \in data[a] /\ "verifications" \notin data[a] => a \in torn
      <4>1. ASSUME NEW t \in Retainers, RunAt(t, "drop"), Erased(t) = a PROVE FALSE
        <5>1. Erasing(t)
          BY <4>1 DEF Erasing, RunAt
        <5>2. t = s
          BY <5>1, <4>1, <3>2, <1>1 DEF OneRun
        <5> QED
          BY <5>2, <4>1, <1>3
      <4> QED
        BY <4>1, <3>2, <1>1 DEF AccountHolds
    <3>5. /\ Erasing(s)' /\ Erased(s)' = a /\ ~RunAt(s, "media")'
          /\ RunAt(s, "drop")'
      BY <3>1 DEF Erasing, Erased, RunAt
    <3>6. \A b \in retention'[s].todo : b \in Accounts /\ accounts'[b].due
      BY <3>1, <2>0, <1>0 DEF RunHolds, Quiet
    <3> HIDE DEF a
    <3> QED
      BY <3>1, <3>2, <3>3, <3>4, <3>5, <3>6, <1>0 DEF RunHolds, Quiet, Collections
  <2> QED
    BY <2>1, <2>2, <2>3, <2>4, <2>5
<1>9. ASSUME NEW t \in Retainers, t # s PROVE RunHolds(t)'
  <2>1. Leaves(t)
    <3>1. RunHolds(t)
      BY <1>1
    <3> QED
      BY <3>1, <1>0, <1>4, <1>9 DEF Leaves, OnlyRun, Quiet, RunHolds
  <2> QED
    BY <2>1, <1>1, <1>9, RunLeft
<1>10. ASSUME NEW b \in Accounts PROVE AccountHolds(b)'
  <2>1. Spares(b)
    <3>1. ASSUME NEW t \in Retainers, RunAt(t, "drop"), Erased(t) = b PROVE RunAt(t, "drop")' /\ Erased(t)' = b
      BY <3>1, <1>3, <1>4 DEF OnlyRun, RunAt, Erased
    <3> QED
      BY <3>1, <1>0 DEF Spares, Quiet
  <2> QED
    BY <2>1, <1>1, AccountSpared
<1> QED
  BY <1>6, <1>7, <1>8, <1>9, <1>10 DEF ErasureInv

\* What the invariant says of a run that erases.
LEMMA ErasingNow ==
  ASSUME ErasureInv, NEW s \in Retainers, Erasing(s)
  PROVE  LET a == Erased(s)
         IN /\ a \in Accounts /\ accounts[a] \in AccountRecords /\ AccountHolds(a)
            /\ accounts[a].claimed /\ accounts[a].due /\ <<a, 0>> \notin dead
            /\ \A t \in Retainers : t # s /\ Erasing(t) => Erased(t) # a
<1>1. RunHolds(s) /\ OneRun /\ ErasureTypes
  BY DEF ErasureInv
<1>2. Erased(s) \in Accounts /\ accounts[Erased(s)].claimed /\ accounts[Erased(s)].due
      /\ <<Erased(s), 0>> \notin dead
  BY <1>1 DEF RunHolds
<1>3. accounts[Erased(s)] \in AccountRecords /\ AccountHolds(Erased(s))
  BY <1>1, <1>2 DEF ErasureTypes, ErasureInv
<1>4. \A t \in Retainers : t # s /\ Erasing(t) => Erased(t) # Erased(s)
  BY <1>1 DEF OneRun
<1> QED
  BY <1>2, <1>3, <1>4

LEMMA ClaimStep ==
  ASSUME ErasureInv, NEW s \in Retainers, ClaimErasure(s)
  PROVE  ErasureInv'
<1>0. UNCHANGED <<files, assets, data, exports, asking, torn, dead>>
  BY DEF ClaimErasure, kept, exporting, erasureHistory
<1>1. ErasureTypes /\ OneRun /\ (\A t \in Retainers : RunHolds(t)) /\ (\A b \in Accounts : AccountHolds(b))
  BY DEF ErasureInv
<1>2. DOMAIN retention = Retainers /\ DOMAIN retention[s] = RunFields
  BY <1>1 DEF ErasureTypes
<1>3. PICK a \in retention[s].todo :
       IF Erasable(a)
       THEN /\ accounts' = [accounts EXCEPT ![a].claimed = TRUE]
            /\ retention' = [retention EXCEPT ![s].at = "list", ![s].of = a, ![s].todo = @ \ {a}]
       ELSE retention' = [retention EXCEPT ![s].todo = @ \ {a}] /\ UNCHANGED accounts
  BY DEF ClaimErasure
<1>4. a \in Accounts /\ accounts[a].due /\ retention[s].at = "next" /\ accounts[a] \in AccountRecords
  BY <1>1 DEF RunHolds, ClaimErasure, RunAt, ErasureTypes
<1>5. OnlyRun(s) /\ retention'[s].todo = retention[s].todo \ {a}
  BY <1>2, <1>3 DEF OnlyRun, RunFields
<1>6. ErasureTypes'
  <2>1. \A t \in Retainers : DOMAIN retention'[t] = RunFields
    BY <1>1, <1>5 DEF ErasureTypes, OnlyRun
  <2>2. accounts \in [Accounts -> AccountRecords]
    BY <1>1 DEF ErasureTypes
  <2>3. [accounts[a] EXCEPT !.claimed = TRUE] \in AccountRecords
    BY <1>4 DEF AccountRecords
  <2>4. accounts' \in [Accounts -> AccountRecords]
    <3>1. CASE Erasable(a)
      BY <3>1, <1>3, <2>2, <2>3
    <3>2. CASE ~Erasable(a)
      BY <3>2, <1>3, <2>2
    <3> QED
      BY <3>1, <3>2
  <2> QED
    BY <2>1, <2>4, <1>0, <1>1, <1>5 DEF ErasureTypes, OnlyRun
<1>7. CASE Erasable(a)
  <2>1. /\ accounts[a].status = "DELETION_PENDING" /\ ~accounts[a].claimed
        /\ retention'[s].at = "list" /\ retention'[s].of = a
    BY <1>7, <1>3, <1>2 DEF Erasable, RunFields
  <2>2. /\ accounts'[a].claimed /\ accounts'[a].due /\ accounts'[a].named = accounts[a].named
        /\ accounts'[a].status = accounts[a].status
        /\ \A b \in Accounts : b # a => accounts'[b] = accounts[b]
    BY <1>7, <1>3, <1>4, <1>1 DEF ErasureTypes, AccountRecords
  <2>3. \A t \in Retainers : Erasing(t) => Erased(t) # a
    BY <2>1, <1>1 DEF RunHolds
  <2>4. <<a, 0>> \notin dead
    BY <2>1, <1>4, <1>1 DEF AccountHolds
  <2>5. OneRun'
    BY <2>1, <2>3, <1>1, <1>5 DEF OneRun, OnlyRun, Erasing, Erased
  <2>6. RunHolds(s)'
    <3>1. \A b \in retention[s].todo : b \in Accounts /\ accounts[b].due
      BY <1>1 DEF RunHolds
    <3>2. ~RunAt(s, "media")' /\ ~RunAt(s, "drop")' /\ Erased(s)' = a
      BY <2>1 DEF RunAt, Erased
    <3> QED
      BY <3>1, <3>2, <2>2, <2>4, <1>0, <1>4, <1>5 DEF RunHolds
  <2>7. ASSUME NEW t \in Retainers, t # s PROVE RunHolds(t)'
    <3>0. RunHolds(t)
      BY <1>1
    <3>1. Leaves(t)
      BY <3>0, <2>2, <2>3, <2>7, <1>0, <1>4, <1>5 DEF Leaves, OnlyRun, RunHolds
    <3> QED
      BY <3>0, <3>1, RunLeft
  <2>8. ASSUME NEW b \in Accounts PROVE AccountHolds(b)'
    <3>0. AccountHolds(b)
      BY <1>1
    <3>1. \A t \in Retainers : RunAt(t, "drop") => RunAt(t, "drop")' /\ Erased(t)' = Erased(t)
      BY <1>4, <1>5 DEF OnlyRun, RunAt, Erased
    <3>2. CASE b = a
      BY <3>0, <3>1, <3>2, <2>2, <1>0, <1>4 DEF AccountHolds
    <3>3. CASE b # a
      <4>1. Spares(b)
        BY <3>1, <3>3, <2>2, <1>0 DEF Spares
      <4> QED
        BY <4>1, <3>0, AccountSpared
    <3> QED
      BY <3>2, <3>3
  <2> QED
    BY <2>5, <2>6, <2>7, <2>8, <1>6 DEF ErasureInv
<1>8. CASE ~Erasable(a)
  <2>1. accounts' = accounts /\ retention'[s].at = "next"
    BY <1>8, <1>3, <1>4, <1>2 DEF RunFields
  <2>2. \A t \in Retainers : Erasing(t)' => Erasing(t) /\ Erased(t)' = Erased(t)
    BY <2>1, <1>5 DEF OnlyRun, Erasing, Erased
  <2>3. OneRun'
    BY <2>2, <1>1 DEF OneRun
  <2>4. RunHolds(s)'
    BY <2>1, <1>1, <1>5 DEF RunHolds, Erasing
  <2>5. ASSUME NEW t \in Retainers, t # s PROVE RunHolds(t)'
    <3>0. RunHolds(t)
      BY <1>1
    <3>1. Leaves(t)
      BY <3>0, <2>1, <2>5, <1>0, <1>5 DEF Leaves, OnlyRun, RunHolds
    <3> QED
      BY <3>0, <3>1, RunLeft
  <2>6. ASSUME NEW b \in Accounts PROVE AccountHolds(b)'
    <3>1. \A t \in Retainers : RunAt(t, "drop") => RunAt(t, "drop")' /\ Erased(t)' = Erased(t)
      BY <1>4, <1>5 DEF OnlyRun, RunAt, Erased
    <3>2. Spares(b)
      BY <3>1, <2>1, <1>0 DEF Spares
    <3> QED
      BY <3>2, <1>1, AccountSpared
  <2> QED
    BY <2>3, <2>4, <2>5, <2>6, <1>6 DEF ErasureInv
<1> QED
  BY <1>7, <1>8

LEMMA DeleteFileStep ==
  ASSUME ErasureInv, NEW s \in Retainers, DeleteFile(s)
  PROVE  ErasureInv'
<1> DEFINE a == Erased(s)
<1>0. UNCHANGED <<accounts, assets, data, exports, asking, torn, dead>>
  BY DEF DeleteFile, FileGone, erasureHistory
<1>1. ErasureTypes /\ OneRun /\ (\A t \in Retainers : RunHolds(t)) /\ (\A b \in Accounts : AccountHolds(b))
  BY DEF ErasureInv
<1>2. DOMAIN retention = Retainers /\ DOMAIN retention[s] = RunFields
      /\ DOMAIN files = Accounts
  BY <1>1 DEF ErasureTypes
<1>3. PICK f \in retention[s].files :
       /\ files' = [files EXCEPT ![a] = @ \ {f}]
       /\ retention' = [retention EXCEPT ![s].files = @ \ {f}]
  BY DEF DeleteFile, FileGone
<1>4. retention[s].at = "media" /\ Erasing(s) /\ RunAt(s, "media")
  BY DEF DeleteFile, RunAt, Erasing
<1>5. /\ a \in Accounts /\ AccountHolds(a)
      /\ \A t \in Retainers : t # s /\ Erasing(t) => Erased(t) # a
  BY <1>4, ErasingNow
<1>6. OnlyRun(s)
  BY <1>2, <1>3 DEF OnlyRun, RunFields
<1>7. /\ retention'[s].at = "media" /\ retention'[s].of = retention[s].of
      /\ retention'[s].todo = retention[s].todo /\ retention'[s].files = retention[s].files \ {f}
  BY <1>2, <1>3, <1>4 DEF RunFields
<1>8. /\ files'[a] = files[a] \ {f} /\ DOMAIN files' = Accounts
      /\ \A b \in Accounts : b # a => files'[b] = files[b]
  BY <1>2, <1>3, <1>5
<1>9. ErasureTypes'
  <2>1. \A t \in Retainers : DOMAIN retention'[t] = RunFields
    BY <1>1, <1>6 DEF ErasureTypes, OnlyRun
  <2> QED
    BY <2>1, <1>0, <1>1, <1>6, <1>8 DEF ErasureTypes, OnlyRun
<1>10. \A t \in Retainers : Erasing(t)' = Erasing(t) /\ Erased(t)' = Erased(t)
                            /\ RunAt(t, "drop")' = RunAt(t, "drop")
  BY <1>4, <1>6, <1>7 DEF OnlyRun, Erasing, Erased, RunAt
<1>11. OneRun'
  BY <1>10, <1>1 DEF OneRun
<1>12. RunHolds(s)'
  <2>1. /\ \A b \in retention[s].todo : b \in Accounts /\ accounts[b].due
        /\ accounts[a].due /\ accounts[a].claimed /\ <<a, 0>> \notin dead /\ files[a] \subseteq retention[s].files
    BY <1>1, <1>4 DEF RunHolds
  <2>2. ~RunAt(s, "drop")' /\ Erased(s)' = a
    BY <1>7, <1>10 DEF RunAt
  <2> HIDE DEF a
  <2> QED
    BY <2>1, <2>2, <1>0, <1>5, <1>7, <1>8 DEF RunHolds
<1>13. ASSUME NEW t \in Retainers, t # s PROVE RunHolds(t)'
  <2>0. RunHolds(t)
    BY <1>1
  <2>1. Erasing(t) => Erased(t) # a /\ Erased(t) \in Accounts
    BY <2>0, <1>5, <1>13 DEF RunHolds
  <2>2. Leaves(t)
    BY <2>0, <2>1, <1>0, <1>6, <1>8, <1>13 DEF Leaves, OnlyRun, RunHolds
  <2> QED
    BY <2>0, <2>2, RunLeft
<1>14. ASSUME NEW b \in Accounts PROVE AccountHolds(b)'
  <2>0. AccountHolds(b)
    BY <1>1
  <2>1. CASE b = a
    BY <2>0, <2>1, <1>0, <1>8, <1>10 DEF AccountHolds
  <2>2. CASE b # a
    <3>1. Spares(b)
      BY <2>2, <1>0, <1>8, <1>10 DEF Spares
    <3> QED
      BY <2>0, <3>1, AccountSpared
  <2> QED
    BY <2>1, <2>2
<1> QED
  BY <1>9, <1>11, <1>12, <1>13, <1>14 DEF ErasureInv

LEMMA DropStep ==
  ASSUME ErasureInv, NEW s \in Retainers, DropCollection(s)
  PROVE  ErasureInv'
<1> DEFINE a == Erased(s)
<1>0. UNCHANGED <<accounts, files, asking, torn, dead>>
  BY DEF DropCollection, Dropped, erasureHistory
<1>1. ErasureTypes /\ OneRun /\ (\A t \in Retainers : RunHolds(t)) /\ (\A b \in Accounts : AccountHolds(b))
  BY DEF ErasureInv
<1>2. /\ DOMAIN retention = Retainers /\ DOMAIN retention[s] = RunFields
      /\ DOMAIN assets = Accounts /\ data \in [Accounts -> SUBSET Collections]
      /\ exports \in [Accounts -> Seq(ExportRecords)]
  BY <1>1 DEF ErasureTypes
<1>3. PICK c \in retention[s].drop :
        /\ retention' = [retention EXCEPT ![s].drop = @ \ {c}]
        /\ data' = [data EXCEPT ![a] = @ \ {c}]
        /\ assets' = IF c = "media_assets" THEN [assets EXCEPT ![a] = {}] ELSE assets
        /\ exports' = IF c = "privacy_jobs" THEN [exports EXCEPT ![a] = <<>>] ELSE exports
  BY DEF DropCollection, Dropped
<1>4. retention[s].at = "drop" /\ Erasing(s) /\ RunAt(s, "drop")
  BY DEF DropCollection, RunAt, Erasing
<1>5. /\ a \in Accounts /\ AccountHolds(a)
      /\ \A t \in Retainers : t # s /\ Erasing(t) => Erased(t) # a
  BY <1>4, ErasingNow
<1>6. OnlyRun(s)
  BY <1>2, <1>3 DEF OnlyRun, RunFields
<1>7. /\ retention'[s].at = "drop" /\ retention'[s].of = retention[s].of
      /\ retention'[s].todo = retention[s].todo /\ retention'[s].drop = retention[s].drop \ {c}
  BY <1>2, <1>3, <1>4 DEF RunFields
<1>8. data'[a] = data[a] \ {c} /\ \A b \in Accounts : b # a => data'[b] = data[b]
  BY <1>2, <1>3, <1>5
<1>9. /\ assets'[a] = (IF c = "media_assets" THEN {} ELSE assets[a]) /\ DOMAIN assets' = Accounts
      /\ \A b \in Accounts : b # a => assets'[b] = assets[b]
  BY <1>2, <1>3, <1>5
<1>10. /\ exports'[a] = (IF c = "privacy_jobs" THEN <<>> ELSE exports[a])
       /\ \A b \in Accounts : b # a => exports'[b] = exports[b]
  BY <1>2, <1>3, <1>5
<1>11. ErasureTypes'
  <2>1. \A t \in Retainers : DOMAIN retention'[t] = RunFields
    BY <1>1, <1>6 DEF ErasureTypes, OnlyRun
  <2>2. data' \in [Accounts -> SUBSET Collections]
    BY <1>2, <1>3, <1>5
  <2>3. exports' \in [Accounts -> Seq(ExportRecords)]
    <3>1. <<>> \in Seq(ExportRecords)
      OBVIOUS
    <3>2. CASE c = "privacy_jobs"
      <4>1. exports' = [exports EXCEPT ![a] = <<>>]
        BY <3>2, <1>3
      <4> QED
        BY <3>1, <4>1, <1>2, <1>5
    <3>3. CASE c # "privacy_jobs"
      BY <3>3, <1>2, <1>3
    <3> QED
      BY <3>2, <3>3
  <2> QED
    BY <2>1, <2>2, <2>3, <1>0, <1>1, <1>6, <1>9 DEF ErasureTypes, OnlyRun
<1>12. \A t \in Retainers : Erasing(t)' = Erasing(t) /\ Erased(t)' = Erased(t)
                            /\ RunAt(t, "drop")' = RunAt(t, "drop")
  BY <1>4, <1>6, <1>7 DEF OnlyRun, Erasing, Erased, RunAt
<1>13. OneRun'
  BY <1>12, <1>1 DEF OneRun
<1>14. RunHolds(s)'
  <2>1. /\ \A b \in retention[s].todo : b \in Accounts /\ accounts[b].due
        /\ accounts[a].due /\ accounts[a].claimed /\ <<a, 0>> \notin dead /\ files[a] = {}
        /\ "media_assets" \notin retention[s].drop => assets[a] = {}
        /\ "privacy_jobs" \notin retention[s].drop /\ accounts[a].status = "DELETION_PENDING"
             => exports[a] = <<>>
        /\ \A k \in {"verifications", "sessions"} : k \in data[a] => k \in retention[s].drop
        /\ "reports" \in data[a] =>
             "reports" \in retention[s].drop \/ a \in torn
    BY <1>1, <1>4 DEF RunHolds
  <2>2. ~RunAt(s, "media")' /\ Erased(s)' = a
    BY <1>7, <1>12 DEF RunAt
  <2>3. "media_assets" \notin retention'[s].drop => assets'[a] = {}
    BY <2>1, <1>7, <1>9
  <2>4. "privacy_jobs" \notin retention'[s].drop /\ accounts'[a].status = "DELETION_PENDING" => exports'[a] = <<>>
    BY <2>1, <1>0, <1>7, <1>10
  <2>5. \A k \in {"verifications", "sessions"} : k \in data'[a] => k \in retention'[s].drop
    BY <2>1, <1>7, <1>8
  <2>6. "reports" \in data'[a] =>
          "reports" \in retention'[s].drop \/ a \in torn'
    BY <2>1, <1>0, <1>2, <1>7, <1>8
  <2> HIDE DEF a
  <2> QED
    BY <2>1, <2>2, <2>3, <2>4, <2>5, <2>6, <1>0, <1>5, <1>7 DEF RunHolds
<1>15. ASSUME NEW t \in Retainers, t # s PROVE RunHolds(t)'
  <2>0. RunHolds(t)
    BY <1>1
  <2>1. Erasing(t) => Erased(t) # a /\ Erased(t) \in Accounts
    BY <2>0, <1>5, <1>15 DEF RunHolds
  <2>2. Leaves(t)
    BY <2>0, <2>1, <1>0, <1>6, <1>8, <1>9, <1>10, <1>15 DEF Leaves, OnlyRun, RunHolds
  <2> QED
    BY <2>0, <2>2, RunLeft
<1>16. ASSUME NEW b \in Accounts PROVE AccountHolds(b)'
  <2>0. AccountHolds(b)
    BY <1>1
  <2>1. CASE b = a
    <3>1. files[a] = {}
      BY <1>1, <1>4 DEF RunHolds
    <3>2. RunAt(s, "drop")' /\ Erased(s)' = a
      BY <1>4, <1>12
    <3>3. data'[a] \subseteq data[a] /\ (assets[a] = {} => assets'[a] = {}) /\ (exports[a] = <<>> => exports'[a] = <<>>)
      BY <1>8, <1>9, <1>10
    <3> HIDE DEF a
    <3> QED
      BY <2>0, <2>1, <3>1, <3>2, <3>3, <1>0 DEF AccountHolds
  <2>2. CASE b # a
    <3>1. Spares(b)
      BY <2>2, <1>0, <1>8, <1>9, <1>10, <1>12 DEF Spares
    <3> QED
      BY <2>0, <3>1, AccountSpared
  <2> QED
    BY <2>1, <2>2
<1> QED
  BY <1>11, <1>13, <1>14, <1>15, <1>16 DEF ErasureInv

LEMMA TombstoneStep ==
  ASSUME ErasureInv, NEW s \in Retainers, WriteTombstone(s)
  PROVE  ErasureInv'
<1>0. UNCHANGED <<files, assets, data, exports, asking, torn, dead>>
  BY DEF WriteTombstone, kept, exporting, erasureHistory
<1>1. ErasureTypes /\ OneRun /\ (\A t \in Retainers : RunHolds(t)) /\ (\A b \in Accounts : AccountHolds(b))
  BY DEF ErasureInv
<1>2. /\ DOMAIN retention = Retainers /\ DOMAIN retention[s] = RunFields
      /\ accounts \in [Accounts -> AccountRecords] /\ data \in [Accounts -> SUBSET Collections]
  BY <1>1 DEF ErasureTypes
<1>3. PICK a : a = Erased(s)
  OBVIOUS
<1>4. retention[s].at = "drop" /\ Erasing(s) /\ RunAt(s, "drop") /\ retention[s].drop = {}
  BY DEF WriteTombstone, RunAt, Erasing
<1>5. /\ a \in Accounts /\ accounts[a] \in AccountRecords /\ AccountHolds(a) /\ <<a, 0>> \notin dead
      /\ accounts[a].due /\ \A t \in Retainers : t # s /\ Erasing(t) => Erased(t) # a
  BY <1>3, <1>4, ErasingNow
<1>6. /\ retention' = [retention EXCEPT ![s].at = "next", ![s].of = "none"]
      /\ accounts' = IF accounts[a].status = "DELETION_PENDING"
                     THEN [accounts EXCEPT ![a].status = "DELETED", ![a].claimed = FALSE, ![a].named = FALSE]
                     ELSE accounts
  BY <1>3 DEF WriteTombstone
<1>7. OnlyRun(s) /\ retention'[s].at = "next" /\ retention'[s].todo = retention[s].todo
  BY <1>2, <1>6 DEF OnlyRun, RunFields
<1>8. /\ files[a] = {} /\ assets[a] = {} /\ "verifications" \notin data[a] /\ "sessions" \notin data[a]
      /\ accounts[a].status = "DELETION_PENDING" => exports[a] = <<>>
      /\ "reports" \in data[a] => a \in torn
  BY <1>1, <1>2, <1>3, <1>4 DEF RunHolds
<1>9. accounts[a].status = "DELETION_PENDING" /\ a \notin torn => data[a] = {}
  BY <1>8, <1>2, <1>5 DEF Collections
<1>10. PICK r \in AccountRecords :
         /\ accounts' = [accounts EXCEPT ![a] = r]
         /\ IF accounts[a].status = "DELETION_PENDING"
            THEN r.status = "DELETED" /\ ~r.claimed /\ ~r.named /\ r.due
            ELSE r = accounts[a]
  <2>1. CASE accounts[a].status = "DELETION_PENDING"
    <3> DEFINE r == [accounts[a] EXCEPT !.status = "DELETED", !.claimed = FALSE, !.named = FALSE]
    <3>1. r \in AccountRecords /\ r.status = "DELETED" /\ ~r.claimed /\ ~r.named /\ r.due
      BY <1>5 DEF AccountRecords, AccountStatuses
    <3>2. accounts' = [accounts EXCEPT ![a] = r]
      BY <2>1, <1>2, <1>5, <1>6
    <3> QED
      BY <2>1, <3>1, <3>2
  <2>2. CASE accounts[a].status # "DELETION_PENDING"
    BY <2>2, <1>2, <1>5, <1>6
  <2> QED
    BY <2>1, <2>2
<1>11. accounts'[a] = r /\ \A b \in Accounts : b # a => accounts'[b] = accounts[b]
  BY <1>2, <1>5, <1>10
<1>12. ErasureTypes'
  <2>1. \A t \in Retainers : DOMAIN retention'[t] = RunFields
    BY <1>1, <1>7 DEF ErasureTypes, OnlyRun
  <2>2. accounts' \in [Accounts -> AccountRecords]
    BY <1>2, <1>10
  <2> QED
    BY <2>1, <2>2, <1>0, <1>1, <1>7 DEF ErasureTypes, OnlyRun
<1>13. ~Erasing(s)' /\ ~RunAt(s, "drop")' /\ \A t \in Retainers : t # s =>
         (Erasing(t)' <=> Erasing(t)) /\ Erased(t)' = Erased(t) /\ (RunAt(t, "drop")' <=> RunAt(t, "drop"))
  BY <1>7 DEF OnlyRun, Erasing, Erased, RunAt
<1>14. OneRun'
  BY <1>13, <1>1 DEF OneRun
<1>15. r.due
  BY <1>5, <1>10
<1>16. RunHolds(s)'
  <2>1. \A b \in retention[s].todo : b \in Accounts /\ accounts[b].due
    BY <1>1 DEF RunHolds
  <2> QED
    BY <2>1, <1>7, <1>11, <1>13, <1>15 DEF RunHolds
<1>17. ASSUME NEW t \in Retainers, t # s PROVE RunHolds(t)'
  <2>0. RunHolds(t)
    BY <1>1
  <2>1. Erasing(t) => Erased(t) # a /\ Erased(t) \in Accounts
    BY <2>0, <1>5, <1>17 DEF RunHolds
  <2>2. Leaves(t)
    BY <2>0, <2>1, <1>0, <1>7, <1>11, <1>15, <1>17 DEF Leaves, OnlyRun, RunHolds
  <2> QED
    BY <2>0, <2>2, RunLeft
<1>18. ASSUME NEW b \in Accounts PROVE AccountHolds(b)'
  <2>0. AccountHolds(b)
    BY <1>1
  <2>1. CASE b = a
    <3>1. "reports" \in data[a] => a \in torn
      BY <1>8
    <3>2. a \notin asking \/ accounts[a].status # "DELETION_PENDING"
      BY <1>5 DEF AccountHolds
    <3>3. CASE accounts[a].status = "DELETION_PENDING"
      BY <2>1, <3>1, <3>2, <3>3, <1>0, <1>5, <1>8, <1>9, <1>10, <1>11 DEF AccountHolds
    <3>4. CASE accounts[a].status # "DELETION_PENDING"
      BY <2>0, <2>1, <3>1, <3>4, <1>0, <1>10, <1>11 DEF AccountHolds
    <3> QED
      BY <3>3, <3>4
  <2>2. CASE b # a
    <3>1. Spares(b)
      BY <2>2, <1>0, <1>3, <1>11, <1>13 DEF Spares
    <3> QED
      BY <2>0, <3>1, AccountSpared
  <2> QED
    BY <2>1, <2>2
<1> QED
  BY <1>12, <1>14, <1>16, <1>17, <1>18 DEF ErasureInv

\* A run that ends over an account: the claim goes with the catch, and stays with the
\* process.
LEMMA RunEnds ==
  ASSUME ErasureInv, NEW s \in Retainers, NEW a \in Accounts, Erasing(s), Erased(s) = a,
         UNCHANGED <<files, assets, data, exports, asking>>,
         retention' = [retention EXCEPT ![s] = NoRun],
         torn' = IF RunAt(s, "drop") /\ dead' = dead THEN torn \cup {a} ELSE torn,
         \/ dead' = dead /\ accounts' = Unclaimed(a)
         \/ dead' = dead \cup {<<a, 0>>} /\ accounts' = accounts
  PROVE  ErasureInv'
<1>1. ErasureTypes /\ OneRun /\ (\A t \in Retainers : RunHolds(t)) /\ (\A b \in Accounts : AccountHolds(b))
  BY DEF ErasureInv
<1>2. /\ DOMAIN retention = Retainers /\ accounts \in [Accounts -> AccountRecords]
  BY <1>1 DEF ErasureTypes
<1>3. /\ accounts[a] \in AccountRecords /\ AccountHolds(a) /\ <<a, 0>> \notin dead
      /\ accounts[a].due /\ accounts[a].claimed
      /\ \A t \in Retainers : t # s /\ Erasing(t) => Erased(t) # a
  BY ErasingNow
<1>4. OnlyRun(s) /\ retention'[s].at = "off" /\ retention'[s].todo = {}
  BY <1>2 DEF OnlyRun, NoRun, RunFields
<1>5. PICK r \in AccountRecords :
         /\ accounts' = [accounts EXCEPT ![a] = r]
         /\ r.status = accounts[a].status /\ r.due /\ r.named = accounts[a].named
         /\ dead' # dead => r.claimed
  <2> DEFINE r == [accounts[a] EXCEPT !.claimed = FALSE]
  <2>1. CASE dead' = dead /\ accounts' = Unclaimed(a) /\ accounts[a].status = "DELETION_PENDING"
    <3>1. r \in AccountRecords /\ r.status = accounts[a].status /\ r.due /\ r.named = accounts[a].named
      BY <1>3 DEF AccountRecords
    <3>2. accounts' = [accounts EXCEPT ![a] = r]
      BY <2>1, <1>2 DEF Unclaimed
    <3> QED
      BY <2>1, <3>1, <3>2
  <2>2. CASE accounts' = accounts
    BY <2>2, <1>2, <1>3
  <2> QED
    BY <2>1, <2>2 DEF Unclaimed
<1>6. accounts'[a] = r /\ \A b \in Accounts : b # a => accounts'[b] = accounts[b]
  BY <1>2, <1>5
<1>7. ErasureTypes'
  <2>1. \A t \in Retainers : DOMAIN retention'[t] = RunFields
    BY <1>1, <1>4 DEF ErasureTypes, OnlyRun
  <2>2. accounts' \in [Accounts -> AccountRecords]
    BY <1>2, <1>5
  <2> QED
    BY <2>1, <2>2, <1>1, <1>4 DEF ErasureTypes, OnlyRun
<1>8. ~Erasing(s)' /\ \A t \in Retainers : t # s =>
         (Erasing(t)' <=> Erasing(t)) /\ Erased(t)' = Erased(t) /\ (RunAt(t, "drop")' <=> RunAt(t, "drop"))
  BY <1>4 DEF OnlyRun, Erasing, Erased, RunAt
<1>9. OneRun'
  BY <1>8, <1>1 DEF OneRun
<1>10. RunHolds(s)'
  BY <1>4, <1>8 DEF RunHolds
<1>11. torn \subseteq torn' /\ dead \subseteq dead' /\ \A b \in Accounts : <<b, 0>> \in dead' => <<b, 0>> \in dead \/ b = a
  OBVIOUS
<1>12. ASSUME NEW t \in Retainers, t # s PROVE RunHolds(t)'
  <2>0. RunHolds(t)
    BY <1>1
  <2>1. Erasing(t) => Erased(t) # a /\ Erased(t) \in Accounts
    BY <2>0, <1>3, <1>12 DEF RunHolds
  <2>2. Leaves(t)
    BY <2>0, <2>1, <1>4, <1>5, <1>6, <1>11, <1>12 DEF Leaves, OnlyRun, RunHolds
  <2> QED
    BY <2>0, <2>2, RunLeft
<1>13. ASSUME NEW b \in Accounts PROVE AccountHolds(b)'
  <2>0. AccountHolds(b)
    BY <1>1
  <2>1. CASE b = a
    <3>1. RunAt(s, "drop") => a \in torn' \/ <<a, 0>> \in dead'
      OBVIOUS
    <3>2. \A t \in Retainers : t # s /\ RunAt(t, "drop") => Erased(t) # a
      BY <1>3 DEF Erasing, RunAt
    <3>3. "reports" \in data[a] /\ "verifications" \notin data[a] => a \in torn' \/ <<a, 0>> \in dead'
      BY <3>1, <3>2, <1>3, <1>11 DEF AccountHolds
    <3>4. <<a, 0>> \in dead' => r.claimed
      BY <1>3, <1>5
    <3> QED
      BY <2>0, <2>1, <3>3, <3>4, <1>3, <1>5, <1>6, <1>11 DEF AccountHolds
  <2>2. CASE b # a
    <3>1. Spares(b)
      BY <2>2, <1>6, <1>8, <1>11 DEF Spares
    <3> QED
      BY <2>0, <3>1, AccountSpared
  <2> QED
    BY <2>1, <2>2
<1> QED
  BY <1>7, <1>9, <1>10, <1>12, <1>13 DEF ErasureInv

LEMMA FailStep ==
  ASSUME ErasureInv, NEW s \in Retainers, ErasureFails(s)
  PROVE  ErasureInv'
<1>1. PICK a : a = Erased(s)
  OBVIOUS
<1>2. Erasing(s) /\ UNCHANGED <<files, assets, data, exports, asking, dead>>
  BY DEF ErasureFails, kept, exporting
<1>3. a \in Accounts
  BY <1>1, <1>2, ErasingNow
<1>4. /\ retention' = [retention EXCEPT ![s] = NoRun]
      /\ accounts' = Unclaimed(a)
      /\ torn' = IF RunAt(s, "drop") /\ dead' = dead THEN torn \cup {a} ELSE torn
  BY <1>1, <1>2 DEF ErasureFails
<1> QED
  BY <1>1, <1>2, <1>3, <1>4, RunEnds

LEMMA DeathStep ==
  ASSUME ErasureInv, NEW s \in Retainers, SchedulerDies(s)
  PROVE  ErasureInv'
<1>0. /\ UNCHANGED <<accounts, files, assets, data, exports, asking, torn>>
      /\ retention' = [retention EXCEPT ![s] = NoRun]
  BY DEF SchedulerDies, kept, exporting
<1>1. ErasureTypes /\ OneRun /\ (\A t \in Retainers : RunHolds(t)) /\ (\A b \in Accounts : AccountHolds(b))
  BY DEF ErasureInv
<1>2. CASE Erasing(s)
  <2>1. PICK a : a = Erased(s)
    OBVIOUS
  <2>2. a \in Accounts /\ <<a, 0>> \notin dead
    BY <2>1, <1>2, ErasingNow
  <2>3. dead' = dead \cup {<<a, 0>>}
    BY <2>1, <1>2 DEF SchedulerDies
  <2>4. dead' # dead
    BY <2>2, <2>3
  <2>5. torn' = IF RunAt(s, "drop") /\ dead' = dead THEN torn \cup {a} ELSE torn
    BY <2>4, <1>0
  <2> QED
    BY <2>1, <2>2, <2>3, <2>5, <1>0, <1>2, RunEnds
<1>3. CASE ~Erasing(s)
  <2>0. dead' = dead
    BY <1>3 DEF SchedulerDies
  <2>1. OnlyRun(s) /\ retention'[s].at = "off" /\ retention'[s].todo = {}
    BY <1>0, <1>1 DEF ErasureTypes, OnlyRun, NoRun, RunFields
  <2>2. ~Erasing(s)' /\ \A t \in Retainers : t # s =>
          (Erasing(t)' <=> Erasing(t)) /\ Erased(t)' = Erased(t) /\ (RunAt(t, "drop")' <=> RunAt(t, "drop"))
    BY <2>1 DEF OnlyRun, Erasing, Erased, RunAt
  <2>3. ErasureTypes'
    <3>1. \A t \in Retainers : DOMAIN retention'[t] = RunFields
      BY <1>1, <2>1 DEF ErasureTypes, OnlyRun
    <3> QED
      BY <3>1, <2>1, <1>0, <1>1 DEF ErasureTypes, OnlyRun
  <2>4. OneRun'
    BY <2>2, <1>1 DEF OneRun
  <2>5. RunHolds(s)'
    BY <2>1, <2>2 DEF RunHolds
  <2>6. ASSUME NEW t \in Retainers, t # s PROVE RunHolds(t)'
    <3>0. RunHolds(t)
      BY <1>1
    <3>1. Leaves(t)
      BY <3>0, <2>0, <2>1, <2>6, <1>0 DEF Leaves, OnlyRun, RunHolds
    <3> QED
      BY <3>0, <3>1, RunLeft
  <2>7. ASSUME NEW b \in Accounts PROVE AccountHolds(b)'
    <3>1. ~RunAt(s, "drop")
      BY <1>3 DEF Erasing, RunAt
    <3>2. Spares(b)
      BY <3>1, <2>0, <2>2, <1>0 DEF Spares
    <3> QED
      BY <3>2, <1>1, AccountSpared
  <2> QED
    BY <2>3, <2>4, <2>5, <2>6, <2>7 DEF ErasureInv
<1> QED
  BY <1>2, <1>3

\* The exports: an account that is due gets none, and one that is erased neither.
LEMMA ExportSteps ==
  ASSUME ErasureInv, NEW a \in Accounts,
         \/ CheckExport(a) \/ CreateExport(a)
         \/ \E i \in DOMAIN exports[a] : Exporter(a, i) \/ ExporterTrouble(a, i)
  PROVE  ErasureInv'
<1>0. UNCHANGED <<accounts, files, assets, data, retention, torn>>
  BY DEF CheckExport, CreateExport, Exporter, ExporterTrouble, ProcessExport, CompleteExport, ExportFails,
         ExporterDies, AccountElsewhere, kept
<1>1. ErasureTypes /\ OneRun /\ (\A t \in Retainers : RunHolds(t)) /\ (\A b \in Accounts : AccountHolds(b))
  BY DEF ErasureInv
<1>2. exports \in [Accounts -> Seq(ExportRecords)]
  BY <1>1 DEF ErasureTypes
<1>3. exports' \in [Accounts -> Seq(ExportRecords)] /\ (\A b \in Accounts : b # a => exports'[b] = exports[b])
      /\ (a \notin asking /\ exports[a] = <<>> => exports'[a] = <<>>)
  <2>0. exports[a] \in Seq(ExportRecords) /\ \A i \in DOMAIN exports[a] : exports[a][i] \in ExportRecords
    <3>1. exports[a] \in Seq(ExportRecords)
      BY <1>2
    <3> QED
      BY <3>1
  <2>1. CASE CheckExport(a)
    BY <2>1, <1>2 DEF CheckExport
  <2>2. CASE CreateExport(a)
    <3>1. a \in asking
      BY <2>2 DEF CreateExport
    <3>2. \E x \in ExportRecords : exports' = [exports EXCEPT ![a] = Append(@, x)]
      BY <2>2 DEF CreateExport, ExportRecords
    <3> QED
      BY <3>1, <3>2, <2>0, <1>2
  <2>3. ASSUME NEW i \in DOMAIN exports[a], ProcessExport(a, i)
        PROVE  \E x \in ExportRecords : exports' = [exports EXCEPT ![a][i] = x]
    <3> DEFINE x == [status |-> "PROCESSING", tries |-> exports[a][i].tries - 1]
    <3>1. x \in ExportRecords
      BY <2>0 DEF ExportRecords
    <3>2. exports' = [exports EXCEPT ![a][i] = x]
      BY <2>3, <2>0, <1>2 DEF ProcessExport
    <3> QED
      BY <3>1, <3>2
  <2>4. ASSUME NEW i \in DOMAIN exports[a], CompleteExport(a, i)
        PROVE  \E x \in ExportRecords : exports' = [exports EXCEPT ![a][i] = x]
    <3> DEFINE x == [status |-> "COMPLETED", tries |-> 0]
    <3>1. x \in ExportRecords
      BY DEF ExportRecords
    <3>2. exports' = [exports EXCEPT ![a][i] = x]
      BY <2>4 DEF CompleteExport
    <3> QED
      BY <3>1, <3>2
  <2>5. ASSUME NEW i \in DOMAIN exports[a], ExportFails(a, i)
        PROVE  \E x \in ExportRecords : exports' = [exports EXCEPT ![a][i] = x]
    <3> DEFINE x == [exports[a][i] EXCEPT !.status = "FAILED"]
    <3>1. x \in ExportRecords
      BY <2>0 DEF ExportRecords
    <3>2. exports' = [exports EXCEPT ![a][i] = x]
      BY <2>5, <2>0, <1>2 DEF ExportFails
    <3> QED
      BY <3>1, <3>2
  <2>6. ASSUME NEW i \in DOMAIN exports[a], ExporterDies(a, i)
        PROVE  exports' = exports
    BY <2>6 DEF ExporterDies, exporting
  <2>7. ASSUME NEW i \in DOMAIN exports[a], NEW x \in ExportRecords, exports' = [exports EXCEPT ![a][i] = x]
        PROVE  /\ exports' \in [Accounts -> Seq(ExportRecords)]
               /\ \A b \in Accounts : b # a => exports'[b] = exports[b]
               /\ exports[a] # <<>>
    <3> DEFINE t == [exports[a] EXCEPT ![i] = x]
    <3>1. t \in Seq(ExportRecords)
      BY <2>0
    <3>2. exports' = [exports EXCEPT ![a] = t]
      BY <2>7, <1>2
    <3>3. exports[a] # <<>>
      BY <2>0
    <3> HIDE DEF t
    <3> QED
      BY <3>1, <3>2, <3>3, <1>2
  <2>8. CASE \E i \in DOMAIN exports[a] : Exporter(a, i) \/ ExporterTrouble(a, i)
    <3>1. PICK i \in DOMAIN exports[a] : Exporter(a, i) \/ ExporterTrouble(a, i)
      BY <2>8
    <3>2. exports' = exports \/ \E x \in ExportRecords : exports' = [exports EXCEPT ![a][i] = x]
      BY <3>1, <2>3, <2>4, <2>5, <2>6 DEF Exporter, ExporterTrouble
    <3> QED
      BY <3>2, <2>7, <1>2
  <2> QED
    BY <2>1, <2>2, <2>8
<1>4. /\ \A b \in Accounts : b \in asking' => b \in asking \/ (accounts[b].status = "ACTIVE" /\ accounts[b].named)
      /\ \A b \in Accounts : <<b, 0>> \in dead' <=> <<b, 0>> \in dead
  <2>1. CASE CheckExport(a)
    BY <2>1 DEF CheckExport
  <2>2. CASE CreateExport(a)
    BY <2>2 DEF CreateExport
  <2>3. CASE \E i \in DOMAIN exports[a] : Exporter(a, i) \/ ExporterTrouble(a, i)
    <3>1. PICK i \in DOMAIN exports[a] : Exporter(a, i) \/ ExporterTrouble(a, i)
      BY <2>3
    <3>2. i # 0 /\ asking' = asking
      BY <3>1, <1>2 DEF Exporter, ExporterTrouble, ProcessExport, CompleteExport, ExportFails, ExporterDies, exporting
    <3>3. dead' = dead \/ dead' = dead \cup {<<a, i>>}
      BY <3>1 DEF Exporter, ExporterTrouble, ProcessExport, CompleteExport, ExportFails, ExporterDies
    <3>4. \A b \in Accounts : <<b, 0>> # <<a, i>>
      BY <3>2
    <3> QED
      BY <3>2, <3>3, <3>4
  <2> QED
    BY <2>1, <2>2, <2>3
<1>5. ErasureTypes'
  BY <1>0, <1>1, <1>3 DEF ErasureTypes
<1>6. OneRun'
  BY <1>0, <1>1 DEF OneRun, Erasing, Erased
<1>7. ASSUME NEW s \in Retainers PROVE RunHolds(s)'
  <2>0. RunHolds(s)
    BY <1>1
  <2>1. Leaves(s)
    <3>1. Erasing(s) /\ accounts[Erased(s)].status = "DELETION_PENDING" => Erased(s) \notin asking
      BY <2>0, <1>1 DEF RunHolds, AccountHolds
    <3> QED
      BY <2>0, <3>1, <1>0, <1>3, <1>4 DEF Leaves, RunHolds
  <2> QED
    BY <2>0, <2>1, RunLeft
<1>8. ASSUME NEW b \in Accounts PROVE AccountHolds(b)'
  <2>0. AccountHolds(b)
    BY <1>1
  <2>1. \A t \in Retainers : RunAt(t, "drop") => RunAt(t, "drop")' /\ Erased(t)' = Erased(t)
    BY <1>0 DEF RunAt, Erased
  <2>2. ~accounts[b].named => exports'[b] = <<>>
    BY <2>0, <1>3 DEF AccountHolds
  <2> QED
    BY <2>0, <2>1, <2>2, <1>0, <1>4 DEF AccountHolds
<1> QED
  BY <1>5, <1>6, <1>7, <1>8 DEF ErasureInv

LEMMA NothingMoves ==
  ASSUME ErasureInv, Quiet, retention' = retention
  PROVE  ErasureInv'
BY DEF ErasureInv, ErasureTypes, OneRun, RunHolds, AccountHolds, Quiet, RunAt, Erasing, Erased

\* What is under way after its run is over is a deletion of an account that is due; one of a
\* collection comes after the media of the account, and from a run that failed or died.
LateHolds(d) ==
  /\ d.of \in Accounts /\ accounts[d.of].due
  /\ d.kind # "file" => files[d.of] = {} /\ (d.of \in torn \/ <<d.of, 0>> \in dead)

LateInv == \A d \in late : LateHolds(d)

\* A late deletion takes from an account what a run would have taken.
LEMMA LateStep ==
  ASSUME ErasureInv, LateInv, LateDeletion
  PROVE  ErasureInv'
<1>1. PICK d \in late :
        IF d.kind = "file" THEN FileGone(d.of, d.what) ELSE Dropped(d.of, d.what)
  BY DEF LateDeletion
<1>2. PICK a \in Accounts : a = d.of /\ LateHolds(d)
  BY DEF LateInv, LateHolds
<1>0. UNCHANGED <<accounts, asking, retention, torn, dead>>
  BY DEF LateDeletion, erasureHistory
<1>3. ErasureTypes /\ OneRun /\ (\A t \in Retainers : RunHolds(t)) /\ (\A b \in Accounts : AccountHolds(b))
  BY DEF ErasureInv
<1>4. /\ DOMAIN files = Accounts /\ DOMAIN assets = Accounts /\ data \in [Accounts -> SUBSET Collections]
      /\ exports \in [Accounts -> Seq(ExportRecords)]
  BY <1>3 DEF ErasureTypes
<1>5. /\ DOMAIN files' = Accounts /\ DOMAIN assets' = Accounts /\ data' \in [Accounts -> SUBSET Collections]
      /\ files'[a] \subseteq files[a] /\ assets'[a] \subseteq assets[a] /\ data'[a] \subseteq data[a]
      /\ \A b \in Accounts : b # a => files'[b] = files[b] /\ assets'[b] = assets[b] /\ data'[b] = data[b]
  <2>1. CASE d.kind = "file"
    BY <2>1, <1>1, <1>2, <1>4 DEF FileGone
  <2>2. CASE d.kind # "file"
    BY <2>2, <1>1, <1>2, <1>4 DEF Dropped
  <2> QED
    BY <2>1, <2>2
<1>6. /\ exports' \in [Accounts -> Seq(ExportRecords)]
      /\ exports[a] = <<>> => exports'[a] = <<>>
      /\ \A b \in Accounts : b # a => exports'[b] = exports[b]
  <2>1. <<>> \in Seq(ExportRecords)
    OBVIOUS
  <2>2. exports' = exports \/ exports' = [exports EXCEPT ![a] = <<>>]
    BY <1>1, <1>2 DEF FileGone, Dropped
  <2> QED
    BY <2>1, <2>2, <1>4
<1>7. files'[a] \subseteq assets'[a]
  <2>1. AccountHolds(a)
    BY <1>3
  <2>2. CASE d.kind = "file"
    BY <2>1, <2>2, <1>1, <1>5 DEF FileGone, AccountHolds
  <2>3. CASE d.kind # "file"
    BY <2>3, <1>2, <1>5 DEF LateHolds
  <2> QED
    BY <2>2, <2>3
<1>8. "verifications" \in data[a] /\ "verifications" \notin data'[a] => a \in torn \/ <<a, 0>> \in dead
  <2>1. CASE d.kind = "file"
    BY <2>1, <1>1 DEF FileGone
  <2>2. CASE d.kind # "file"
    BY <2>2, <1>2 DEF LateHolds
  <2> QED
    BY <2>1, <2>2
<1>9. ErasureTypes'
  BY <1>0, <1>3, <1>5, <1>6 DEF ErasureTypes
<1>10. OneRun'
  BY <1>0, <1>3 DEF OneRun, Erasing, Erased
<1>11. ASSUME NEW t \in Retainers PROVE RunHolds(t)'
  <2>1. RunHolds(t)
    BY <1>3
  <2>2. Leaves(t)
    BY <2>1, <1>0, <1>5, <1>6 DEF Leaves, RunHolds
  <2> QED
    BY <2>1, <2>2, RunLeft
<1>12. ASSUME NEW b \in Accounts PROVE AccountHolds(b)'
  <2>1. AccountHolds(b)
    BY <1>3
  <2>2. \A t \in Retainers : RunAt(t, "drop")' = RunAt(t, "drop") /\ Erased(t)' = Erased(t)
    BY <1>0 DEF RunAt, Erased
  <2>3. CASE b = a
    BY <2>1, <2>2, <2>3, <1>0, <1>5, <1>6, <1>7, <1>8 DEF AccountHolds
  <2>4. CASE b # a
    <3>1. Spares(b)
      BY <2>2, <2>4, <1>0, <1>5, <1>6 DEF Spares
    <3> QED
      BY <2>1, <3>1, AccountSpared
  <2> QED
    BY <2>3, <2>4
<1> QED
  BY <1>9, <1>10, <1>11, <1>12 DEF ErasureInv

LEMMA ErasureSteps == ErasureInv /\ LateInv /\ [ErasureNext]_erasureVars => ErasureInv'
<1> SUFFICES ASSUME ErasureInv, LateInv, [ErasureNext]_erasureVars PROVE ErasureInv'
  OBVIOUS
<1>1. ASSUME NEW a \in Accounts,
             AskToLeave(a) \/ StayAfterAll(a) \/ GraceEnds(a) \/ AdminChangesStatus(a)
      PROVE  ErasureInv'
  BY <1>1, AccountSteps
<1>2. ASSUME NEW a \in Accounts,
             \/ CheckExport(a) \/ CreateExport(a)
             \/ \E i \in DOMAIN exports[a] : Exporter(a, i) \/ ExporterTrouble(a, i)
      PROVE  ErasureInv'
  BY <1>2, ExportSteps
<1>3. ASSUME LockExpires PROVE ErasureInv'
  BY <1>3, NothingMoves DEF LockExpires, Quiet, kept, exporting, erasureHistory
<1>4. ASSUME NEW s \in Retainers, Scheduler(s) PROVE ErasureInv'
  BY <1>4, RunSteps, ClaimStep, DeleteFileStep, DropStep, TombstoneStep DEF Scheduler
<1>5. ASSUME NEW s \in Retainers, RunTrouble(s) PROVE ErasureInv'
  BY <1>5, FailStep, DeathStep DEF RunTrouble
<1>6. ASSUME UNCHANGED erasureVars PROVE ErasureInv'
  BY <1>6, NothingMoves DEF erasureVars, kept, exporting, erasureHistory, Quiet
<1> QED
  BY <1>1, <1>2, <1>3, <1>4, <1>5, <1>6, LateStep DEF ErasureNext

\* What a step does to the account a deletion is under way for.
LateKept(a) ==
  /\ accounts[a].due => accounts'[a].due
  /\ files[a] = {} => files'[a] = {}
  /\ a \in torn => a \in torn'
  /\ <<a, 0>> \in dead => <<a, 0>> \in dead'

LEMMA AccountsGoOn ==
  ASSUME ErasureInv, LateInv, [ErasureNext]_erasureVars, NEW a \in Accounts
  PROVE  LateKept(a)
<1>0. /\ accounts \in [Accounts -> AccountRecords] /\ DOMAIN files = Accounts
      /\ \A s \in Retainers : RunHolds(s)
  BY DEF ErasureInv, ErasureTypes
<1>1. ASSUME NEW b \in Accounts,
             AskToLeave(b) \/ StayAfterAll(b) \/ GraceEnds(b) \/ AdminChangesStatus(b)
      PROVE  LateKept(a)
  <2>1. UNCHANGED <<files, torn, dead>>
    BY <1>1 DEF AskToLeave, StayAfterAll, GraceEnds, AdminChangesStatus, Elsewhere, kept, erasureHistory
  <2>2. accounts[a].due => accounts'[a].due
    <3>1. accounts[b] \in AccountRecords /\ accounts[a] \in AccountRecords
      BY <1>0
    <3> QED
      BY <3>1, <1>0, <1>1 DEF AskToLeave, StayAfterAll, GraceEnds, AdminChangesStatus, AccountRecords
  <2> QED
    BY <2>1, <2>2 DEF LateKept
<1>2. ASSUME NEW b \in Accounts,
             \/ CheckExport(b) \/ CreateExport(b)
             \/ \E i \in DOMAIN exports[b] : Exporter(b, i) \/ ExporterTrouble(b, i)
      PROVE  LateKept(a)
  BY <1>2 DEF CheckExport, CreateExport, Exporter, ExporterTrouble, ProcessExport, CompleteExport,
              ExportFails, ExporterDies, AccountElsewhere, kept, LateKept
<1>3. ASSUME LockExpires \/ UNCHANGED erasureVars PROVE LateKept(a)
  BY <1>3 DEF LockExpires, erasureVars, kept, erasureHistory, LateKept
<1>4. ASSUME NEW s \in Retainers, TakeLock(s) \/ FindDue(s) \/ EndRun(s) \/ ListAssets(s) \/ FindChildren(s)
      PROVE  LateKept(a)
  BY <1>4 DEF TakeLock, FindDue, EndRun, ListAssets, FindChildren, kept, erasureHistory, LateKept
<1>5. ASSUME NEW s \in Retainers, ClaimErasure(s) \/ WriteTombstone(s) \/ ErasureFails(s) \/ SchedulerDies(s)
      PROVE  LateKept(a)
  <2>1. files' = files /\ torn \subseteq torn' /\ dead \subseteq dead'
    BY <1>5 DEF ClaimErasure, WriteTombstone, ErasureFails, SchedulerDies, kept, erasureHistory
  <2>2. accounts'[a].due = accounts[a].due
    <3>1. PICK b : b = Erased(s)
      OBVIOUS
    <3>2. accounts[a] \in AccountRecords
      BY <1>0
    <3>3. CASE ClaimErasure(s)
      BY <3>2, <3>3, <1>0 DEF ClaimErasure, AccountRecords
    <3>4. CASE WriteTombstone(s)
      BY <3>1, <3>2, <3>4, <1>0 DEF WriteTombstone, AccountRecords
    <3>5. CASE ErasureFails(s)
      BY <3>1, <3>2, <3>5, <1>0 DEF ErasureFails, Unclaimed, AccountRecords
    <3>6. CASE SchedulerDies(s)
      BY <3>6 DEF SchedulerDies
    <3> QED
      BY <1>5, <3>3, <3>4, <3>5, <3>6
  <2> QED
    BY <2>1, <2>2 DEF LateKept
<1>6. ASSUME NEW s \in Retainers, DeleteFile(s) \/ DropCollection(s) PROVE LateKept(a)
  <2>1. UNCHANGED <<accounts, torn, dead>>
    BY <1>6 DEF DeleteFile, DropCollection, erasureHistory
  <2>2. files[a] = {} => files'[a] = {}
    BY <1>0, <1>6 DEF DeleteFile, DropCollection, FileGone, Dropped
  <2> QED
    BY <2>1, <2>2 DEF LateKept
<1>7. ASSUME LateDeletion PROVE LateKept(a)
  <2>1. UNCHANGED <<accounts, torn, dead>>
    BY <1>7 DEF LateDeletion, erasureHistory
  <2>2. files[a] = {} => files'[a] = {}
    BY <1>0, <1>7 DEF LateDeletion, FileGone, Dropped
  <2> QED
    BY <2>1, <2>2 DEF LateKept
<1> QED
  BY <1>1, <1>2, <1>3, <1>4, <1>5, <1>6, <1>7 DEF ErasureNext, Scheduler, RunTrouble

\* New deletions under way are those of a run that ends over the account it has claimed.
LEMMA NewlyLate ==
  ASSUME ErasureInv, [ErasureNext]_erasureVars, NEW d \in late', d \notin late
  PROVE  \E s \in Retainers :
           /\ ErasureFails(s) \/ SchedulerDies(s)
           /\ Erasing(s) /\ d.of = Erased(s)
           /\ d.kind # "file" => RunAt(s, "drop")
<1>1. PICK s \in Retainers : ErasureFails(s) \/ SchedulerDies(s)
  BY DEF ErasureNext, AskToLeave, StayAfterAll, GraceEnds, AdminChangesStatus, Elsewhere, CheckExport,
         CreateExport, Exporter, ExporterTrouble, ProcessExport, CompleteExport, ExportFails, ExporterDies,
         AccountElsewhere, LockExpires, LateDeletion, Scheduler, RunTrouble, TakeLock, FindDue, EndRun,
         ClaimErasure, ListAssets, DeleteFile, FindChildren, DropCollection, WriteTombstone, erasureVars
<1>2. Erasing(s) /\ Abandoned(s)
  BY <1>1 DEF ErasureFails, SchedulerDies
<1>3. d.of = Erased(s) /\ (d.kind # "file" => RunAt(s, "drop"))
  BY <1>2 DEF Abandoned
<1> QED
  BY <1>1, <1>2, <1>3

LEMMA LateSteps == ErasureInv /\ LateInv /\ [ErasureNext]_erasureVars => LateInv'
<1> SUFFICES ASSUME ErasureInv, LateInv, [ErasureNext]_erasureVars, NEW d \in late' PROVE LateHolds(d)'
  BY DEF LateInv
<1>1. CASE d \in late
  <2>1. LateHolds(d) /\ d.of \in Accounts
    BY <1>1 DEF LateInv, LateHolds
  <2>2. LateKept(d.of)
    BY <2>1, AccountsGoOn
  <2> QED
    BY <2>1, <2>2 DEF LateHolds, LateKept
<1>2. CASE d \notin late
  <2>1. PICK s \in Retainers : /\ ErasureFails(s) \/ SchedulerDies(s)
                               /\ Erasing(s) /\ d.of = Erased(s)
                               /\ d.kind # "file" => RunAt(s, "drop")
    BY <1>2, NewlyLate
  <2>2. d.of \in Accounts /\ accounts[d.of].due /\ (RunAt(s, "drop") => files[d.of] = {})
    BY <2>1 DEF ErasureInv, RunHolds
  <2>3. accounts'[d.of].due /\ (RunAt(s, "drop") => files'[d.of] = {})
    BY <2>2, AccountsGoOn DEF LateKept
  <2>4. RunAt(s, "drop") => d.of \in torn' \/ <<d.of, 0>> \in dead'
    BY <2>1 DEF ErasureFails, SchedulerDies
  <2> QED
    BY <2>1, <2>2, <2>3, <2>4 DEF LateHolds
<1> QED
  BY <1>1, <1>2

LEMMA ErasureInvariant == ErasureSpec => [](ErasureInv /\ LateInv)
<1>1. ErasureInit => LateInv
  BY DEF ErasureInit, LateInv
<1> QED
  BY <1>1, ErasureStarts, ErasureSteps, LateSteps, PTL DEF ErasureSpec

\* Whatever else happens: an account that was erased has no media anywhere, nor a record of
\* any, and no data unless a deletion of its collections failed
\* (docs/privacy-and-retention.md:35-36); for any accounts, schedulers, media and faults.
THEOREM ErasedStaysGone == ErasureSpec => []ErasedIsGone
<1>1. ErasureInv => ErasedIsGone
  BY DEF ErasureInv, AccountHolds, ErasedIsGone
<1> QED
  BY <1>1, ErasureInvariant, PTL

\* Something of an account goes only while a run has claimed it or by a deletion sent while
\* one had, and what is claimed is pending and due in that very step, however old the run's
\* list (docs/privacy-and-retention.md:23-29).
THEOREM OnlyTheClaimedLose == ErasureSpec => OnlyClaimedLoses
<1> DEFINE Arriving(a) == {d \in late : d.of = a}
           Loses(a) ==
             /\ files'[a] # files[a] \/ data'[a] # data[a] \/ assets'[a] # assets[a] =>
                  accounts[a].due /\ (accounts[a].claimed \/ Arriving(a) # {})
             /\ accounts[a].claimed \/ {d \in late' : d.of = a} \subseteq Arriving(a)
             /\ ~accounts[a].claimed /\ accounts'[a].claimed => Due(a)
<1>1. ErasureInv /\ LateInv /\ [ErasureNext]_erasureVars => [\A a \in Accounts : Loses(a)]_erasureVars
  <2> SUFFICES ASSUME ErasureInv, LateInv, ErasureNext, NEW a \in Accounts PROVE Loses(a)
    OBVIOUS
  <2>0. /\ accounts \in [Accounts -> AccountRecords] /\ DOMAIN files = Accounts /\ DOMAIN data = Accounts
        /\ DOMAIN assets = Accounts /\ \A s \in Retainers : RunHolds(s)
    BY DEF ErasureInv, ErasureTypes
  <2>1. /\ files'[a] # files[a] \/ data'[a] # data[a] \/ assets'[a] # assets[a]
        => accounts[a].due /\ (accounts[a].claimed \/ Arriving(a) # {})
    <3>1. CASE \E s \in Retainers : DeleteFile(s) \/ DropCollection(s)
      <4>1. PICK s \in Retainers : DeleteFile(s) \/ DropCollection(s)
        BY <3>1
      <4>2. PICK b : b = Erased(s)
        OBVIOUS
      <4>3. Erasing(s)
        BY <4>1 DEF DeleteFile, DropCollection, Erasing, RunAt
      <4>4. b \in Accounts /\ accounts[b].claimed /\ accounts[b].due
        BY <4>2, <4>3, ErasingNow
      <4>5. b # a => files'[a] = files[a] /\ data'[a] = data[a] /\ assets'[a] = assets[a]
        BY <4>1, <4>2, <2>0 DEF DeleteFile, DropCollection, FileGone, Dropped
      <4> QED
        BY <4>4, <4>5
    <3>2. CASE LateDeletion
      <4>1. PICK d \in late : IF d.kind = "file" THEN FileGone(d.of, d.what) ELSE Dropped(d.of, d.what)
        BY <3>2 DEF LateDeletion
      <4>2. PICK b \in Accounts : b = d.of /\ accounts[b].due
        BY DEF LateInv, LateHolds
      <4>3. b # a => files'[a] = files[a] /\ data'[a] = data[a] /\ assets'[a] = assets[a]
        BY <4>1, <4>2, <2>0 DEF FileGone, Dropped
      <4>4. b = a => Arriving(a) # {}
        BY <4>2
      <4> QED
        BY <4>2, <4>3, <4>4
    <3>3. CASE ~LateDeletion /\ \A s \in Retainers : ~DeleteFile(s) /\ ~DropCollection(s)
      <4>1. UNCHANGED <<files, data, assets>>
        BY <3>3 DEF ErasureNext, AskToLeave, StayAfterAll, GraceEnds, AdminChangesStatus, Elsewhere,
               CheckExport, CreateExport, Exporter, ExporterTrouble, ProcessExport, CompleteExport,
               ExportFails, ExporterDies, AccountElsewhere, LockExpires, Scheduler, RunTrouble,
               TakeLock, FindDue, EndRun, ClaimErasure, ListAssets, FindChildren, WriteTombstone,
               ErasureFails, SchedulerDies, kept
      <4> QED
        BY <4>1
    <3> QED
      BY <3>1, <3>2, <3>3
  <2>2. accounts[a].claimed \/ {d \in late' : d.of = a} \subseteq Arriving(a)
    <3> SUFFICES ASSUME NEW d \in late', d.of = a, d \notin late PROVE accounts[a].claimed
      OBVIOUS
    <3>1. PICK s \in Retainers : Erasing(s) /\ d.of = Erased(s)
      BY NewlyLate
    <3> QED
      BY <3>1 DEF ErasureInv, RunHolds
  <2>3. ~accounts[a].claimed /\ accounts'[a].claimed => Due(a)
    <3>1. CASE \E s \in Retainers : ClaimErasure(s)
      <4>1. PICK s \in Retainers : ClaimErasure(s)
        BY <3>1
      <4>2. PICK b \in retention[s].todo :
              \/ Erasable(b) /\ accounts' = [accounts EXCEPT ![b].claimed = TRUE]
              \/ accounts' = accounts
        BY <4>1 DEF ClaimErasure
      <4>3. b \in Accounts /\ accounts[b].due
        BY <2>0 DEF RunHolds
      <4>4. Erasable(b) => Due(b)
        BY <4>3 DEF Erasable, Due
      <4>5. b # a => accounts'[a].claimed = accounts[a].claimed
        BY <2>0, <4>2
      <4> QED
        BY <4>2, <4>4, <4>5
    <3>2. CASE \E b \in Accounts : AskToLeave(b) \/ StayAfterAll(b) \/ GraceEnds(b) \/ AdminChangesStatus(b)
      <4>1. accounts[a] \in AccountRecords
        BY <2>0
      <4> QED
        BY <2>0, <3>2, <4>1 DEF AskToLeave, StayAfterAll, GraceEnds, AdminChangesStatus, AccountRecords
    <3>3. CASE \E s \in Retainers : WriteTombstone(s) \/ ErasureFails(s)
      <4>1. PICK s \in Retainers : WriteTombstone(s) \/ ErasureFails(s)
        BY <3>3
      <4>2. PICK b : b = Erased(s)
        OBVIOUS
      <4>3. Erasing(s)
        BY <4>1 DEF WriteTombstone, ErasureFails, Erasing, RunAt
      <4>4. accounts[b].claimed
        BY <4>2, <4>3, ErasingNow
      <4>5. b # a => accounts'[a] = accounts[a]
        BY <2>0, <4>1, <4>2 DEF WriteTombstone, ErasureFails, Unclaimed
      <4> QED
        BY <4>4, <4>5
    <3>4. CASE UNCHANGED accounts
      BY <3>4
    <3> QED
      BY <3>1, <3>2, <3>3, <3>4 DEF ErasureNext, CheckExport, CreateExport, Exporter, ExporterTrouble,
         ProcessExport, CompleteExport, ExportFails, ExporterDies, AccountElsewhere, LockExpires, LateDeletion,
         Scheduler, RunTrouble, TakeLock, FindDue, EndRun, ListAssets, DeleteFile, FindChildren,
         DropCollection, SchedulerDies
  <2> QED
    BY <2>1, <2>2, <2>3
<1>2. [\A a \in Accounts : Loses(a)]_erasureVars =>
      [\A a \in Accounts :
         LET arriving == {d \in late : d.of = a}
             loses == files'[a] # files[a] \/ data'[a] # data[a] \/ assets'[a] # assets[a]
         IN /\ loses => accounts[a].due /\ (accounts[a].claimed \/ arriving # {})
            /\ accounts[a].claimed \/ {d \in late' : d.of = a} \subseteq arriving
            /\ ~accounts[a].claimed /\ accounts'[a].claimed => Due(a)]_erasureVars
  OBVIOUS
<1> QED
  BY <1>1, <1>2, ErasureInvariant, PTL DEF OnlyClaimedLoses, ErasureSpec

-----------------------------------------------------------------------------
(* The domain event outbox, for any number of events and dispatchers, any  *)
(* lease, backoff, batch size and number of faults.                        *)

LEMMA BackoffInRange ==
  ASSUME NEW n \in Nat
  PROVE  Backoff(n) \in 0..BackoffCap
BY OutboxAssumption DEF Backoff

LEMMA CountdownInRange ==
  ASSUME NEW cap \in Nat, NEW n \in 0..cap
  PROVE  Countdown(n) \in 0..cap
BY DEF Countdown

\* Letting a record go keeps the dispatcher's variables well typed.
LEMMA ReleaseTyped ==
  ASSUME OutboxInv, NEW d \in Dispatchers, NEW p \in {"idle", "claiming"}, Release(d, p)
  PROVE  /\ phase' \in [Dispatchers -> Phases]
         /\ held' \in [Dispatchers -> Events \cup {None}]
         /\ seen' \in [Dispatchers -> 0..MaxAttempts]
         /\ taken' \in [Dispatchers -> 0..BatchSize]
         /\ leaseLeft' \in [Dispatchers -> 0..LockTime]
         /\ phase'[d] \in {"idle", "claiming"} /\ held'[d] = None
         /\ \A c \in Dispatchers \ {d} :
              phase'[c] = phase[c] /\ held'[c] = held[c] /\ seen'[c] = seen[c]
BY OutboxAssumption DEF OutboxInv, TypeOK, Release, Phases

LEMMA InitEstablishes == Init => OutboxInv
BY OutboxAssumption
DEF Init, OutboxInv, TypeOK, AttemptsAreDeliveries, PublishedWasDelivered, HolderKnows,
    Statuses, Phases

\* A step of one dispatcher that neither claims nor writes an outcome: every
\* record keeps its status and attempts, deliveries and reached only grow.
LEMMA QuietStep ==
  ASSUME OutboxInv, TypeOK',
         NEW d \in Dispatchers,
         UNCHANGED <<status, attempts>>,
         \A e \in Events : deliveries[e] <= deliveries'[e] /\ (reached[e] => reached'[e]),
         \A c \in Dispatchers \ {d} :
           phase'[c] = phase[c] /\ held'[c] = held[c] /\ seen'[c] = seen[c],
         HolderKnows(d)'
  PROVE  OutboxInv'
<1>1. AttemptsAreDeliveries'
  BY OutboxAssumption DEF OutboxInv, TypeOK, AttemptsAreDeliveries
<1>2. \A e \in Events : status'[e] # "DEAD_LETTER" => attempts'[e] < MaxAttempts
  BY DEF OutboxInv
<1>3. PublishedWasDelivered'
  BY DEF OutboxInv, PublishedWasDelivered
<1>4. ASSUME NEW c \in Dispatchers PROVE HolderKnows(c)'
  <2>1. CASE c = d
    BY <2>1
  <2>2. CASE c # d
    <3>1. HolderKnows(c) /\ phase'[c] = phase[c] /\ held'[c] = held[c] /\ seen'[c] = seen[c]
      BY <2>2 DEF OutboxInv
    <3>2. phase[c] \in {"idle", "claiming"} => HolderKnows(c)'
      BY <3>1 DEF HolderKnows
    <3>3. ASSUME phase[c] \notin {"idle", "claiming"} PROVE HolderKnows(c)'
      <4>1. held[c] \in Events
        BY <3>1, <3>3 DEF HolderKnows
      <4>2. deliveries[held[c]] <= deliveries'[held[c]] /\ (reached[held[c]] => reached'[held[c]])
        BY <4>1
      <4>3. deliveries[held[c]] \in Int /\ deliveries'[held[c]] \in Int /\ seen[c] \in Int
        BY <4>1, OutboxAssumption DEF OutboxInv, TypeOK
      <4>. QED BY <3>1, <3>3, <4>1, <4>2, <4>3 DEF HolderKnows
    <3>. QED BY <3>2, <3>3
  <2>. QED BY <2>1, <2>2
<1>. QED BY <1>1, <1>2, <1>3, <1>4 DEF OutboxInv

\* Every step keeps the types; the one bound that takes an argument is that
\* an attempt is recorded only by a dispatcher that read fewer than MaxAttempts.
LEMMA StepTyped ==
  ASSUME OutboxInv, [Next]_vars
  PROVE  TypeOK'
<1>. USE OutboxAssumption
<1>1. ASSUME NEW e \in Events, Publish(e) PROVE TypeOK'
  BY <1>1 DEF OutboxInv, TypeOK, Publish, process, Statuses
<1>2. ASSUME NEW e \in Events, Expire(e) PROVE TypeOK'
  BY <1>2 DEF OutboxInv, TypeOK, Expire, process, history, Statuses
<1>3. ASSUME NEW d \in Dispatchers, StartPass(d) PROVE TypeOK'
  BY <1>3 DEF OutboxInv, TypeOK, StartPass, store, history, Phases
<1>4. ASSUME NEW d \in Dispatchers, Claim(d) PROVE TypeOK'
  BY <1>4 DEF OutboxInv, TypeOK, Claim, history, Phases, Statuses
<1>5. ASSUME NEW d \in Dispatchers, EndPass(d) PROVE TypeOK'
  <2>1. Release(d, "idle") /\ UNCHANGED <<store, history, faults>>
    BY <1>5 DEF EndPass
  <2>. QED BY <2>1, ReleaseTyped DEF OutboxInv, TypeOK, store, history
<1>6. ASSUME NEW d \in Dispatchers, HandlersSucceed(d) \/ HandlerThrows(d) \/ NoListener(d)
      PROVE TypeOK'
  <2>1. UNCHANGED <<store, held, seen, taken, leaseLeft, faults>>
    BY <1>6 DEF HandlersSucceed, HandlerThrows, NoListener, Deliver
  <2>2. phase' \in [Dispatchers -> Phases]
    BY <1>6 DEF OutboxInv, TypeOK, HandlersSucceed, HandlerThrows, NoListener, Deliver, Unheard, Phases
  <2>3. deliveries' \in [Events -> Nat]
    BY <1>6 DEF OutboxInv, TypeOK, HandlersSucceed, HandlerThrows, NoListener, Deliver
  <2>4. reached' \in [Events -> BOOLEAN] /\ handled' \in [Events -> BOOLEAN]
    BY <1>6 DEF OutboxInv, TypeOK, HandlersSucceed, HandlerThrows, NoListener, Deliver
  <2>. QED BY <2>1, <2>2, <2>3, <2>4 DEF OutboxInv, TypeOK, store
<1>7. ASSUME NEW d \in Dispatchers, MarkPublished(d) PROVE TypeOK'
  <2>1. Release(d, "claiming") /\ UNCHANGED <<attempts, availableAt, younger, history, faults>>
    BY <1>7 DEF MarkPublished
  <2>2. status' \in [Events -> Statuses] /\ lockedUntil' \in [Events -> 0..LockTime]
    BY <1>7 DEF MarkPublished, OutboxInv, TypeOK, Statuses
  <2>. QED BY <2>1, <2>2, ReleaseTyped DEF OutboxInv, TypeOK, history
<1>8. ASSUME NEW d \in Dispatchers, MarkFailed(d) PROVE TypeOK'
  <2>1. Release(d, "claiming") /\ UNCHANGED <<younger, history, faults>>
    BY <1>8 DEF MarkFailed
  <2>2. seen[d] + 1 \in 0..MaxAttempts
    BY <1>8 DEF MarkFailed, OutboxInv, HolderKnows, TypeOK
  <2>3. Backoff(seen[d] + 1) \in 0..BackoffCap
    BY <2>2, BackoffInRange
  <2>4. /\ status' \in [Events -> Statuses]
        /\ attempts' \in [Events -> 0..MaxAttempts]
        /\ availableAt' \in [Events -> 0..BackoffCap]
        /\ lockedUntil' \in [Events -> 0..LockTime]
    BY <1>8, <2>2, <2>3 DEF MarkFailed, OutboxInv, TypeOK, Statuses
  <2>. QED BY <2>1, <2>4, ReleaseTyped DEF OutboxInv, TypeOK, history
<1>9. ASSUME NEW d \in Dispatchers, DatabaseError(d) PROVE TypeOK'
  <2>1. UNCHANGED <<store, history>> /\ faults' \in 0..MaxFaults
    BY <1>9 DEF DatabaseError, OutboxInv, TypeOK
  <2>2. /\ phase' \in [Dispatchers -> Phases]
        /\ held' \in [Dispatchers -> Events \cup {None}]
        /\ seen' \in [Dispatchers -> 0..MaxAttempts]
        /\ taken' \in [Dispatchers -> 0..BatchSize]
        /\ leaseLeft' \in [Dispatchers -> 0..LockTime]
    BY <1>9, ReleaseTyped DEF DatabaseError, OutboxInv, TypeOK, Phases
  <2>. QED BY <2>1, <2>2 DEF OutboxInv, TypeOK, store, history
<1>10. ASSUME NEW d \in Dispatchers, Crash(d) PROVE TypeOK'
  <2>1. Release(d, "idle") /\ UNCHANGED <<store, history>> /\ faults' \in 0..MaxFaults
    BY <1>10 DEF Crash, OutboxInv, TypeOK
  <2>. QED BY <2>1, ReleaseTyped DEF OutboxInv, TypeOK, store, history
<1>11. ASSUME Tick PROVE TypeOK'
  BY <1>11, CountdownInRange DEF Tick, OutboxInv, TypeOK, history
<1>12. CASE UNCHANGED vars
  BY <1>12 DEF OutboxInv, TypeOK, vars, store, process, history
<1>. QED BY <1>1, <1>2, <1>3, <1>4, <1>5, <1>6, <1>7, <1>8, <1>9, <1>10, <1>11, <1>12 DEF Next, Step

\* The records a dispatcher's outcome write touches: at most the one it holds,
\* and that one only while it is PROCESSING.
LEMMA OutcomeStep ==
  ASSUME OutboxInv, TypeOK',
         NEW d \in Dispatchers, MarkPublished(d) \/ MarkFailed(d)
  PROVE  OutboxInv'
<1>. USE OutboxAssumption
<1>1. /\ held[d] \in Events /\ status[held[d]] # "ABSENT"
      /\ seen[d] < MaxAttempts /\ seen[d] < deliveries[held[d]]
      /\ phase[d] = "acking" => reached[held[d]]
  BY DEF OutboxInv, HolderKnows, MarkPublished, MarkFailed
<1>2. UNCHANGED <<deliveries, reached>>
  BY DEF MarkPublished, MarkFailed, history
<1>3. AttemptsAreDeliveries'
  BY <1>1, <1>2 DEF OutboxInv, TypeOK, AttemptsAreDeliveries, MarkPublished, MarkFailed, DeadLetter
<1>4. ASSUME NEW e \in Events, status'[e] # "DEAD_LETTER" PROVE attempts'[e] < MaxAttempts
  <2>1. CASE UNCHANGED attempts
    <3>1. status[e] # "DEAD_LETTER"
      BY <1>4 DEF OutboxInv, TypeOK, MarkPublished, MarkFailed, Matches
    <3>. QED BY <2>1, <3>1 DEF OutboxInv
  <2>2. CASE MarkFailed(d) /\ Matches(d)
    BY <1>1, <1>4, <2>2 DEF OutboxInv, TypeOK, MarkFailed, DeadLetter
  <2>. QED BY <2>1, <2>2 DEF MarkPublished, MarkFailed
<1>5. PublishedWasDelivered'
  BY <1>1, <1>2 DEF OutboxInv, TypeOK, PublishedWasDelivered, MarkPublished, MarkFailed
<1>6. \A e \in Events : status[e] # "ABSENT" => status'[e] # "ABSENT"
  BY DEF OutboxInv, TypeOK, MarkPublished, MarkFailed
<1>7. Release(d, "claiming")
  BY DEF MarkPublished, MarkFailed
<1>8. ASSUME NEW c \in Dispatchers PROVE HolderKnows(c)'
  <2>1. CASE c = d
    BY <2>1, <1>7, ReleaseTyped DEF HolderKnows
  <2>2. CASE c # d
    <3>1. phase'[c] = phase[c] /\ held'[c] = held[c] /\ seen'[c] = seen[c]
      BY <2>2, <1>7, ReleaseTyped
    <3>2. HolderKnows(c)
      BY DEF OutboxInv
    <3>. QED BY <3>1, <3>2, <1>2, <1>6 DEF HolderKnows
  <2>. QED BY <2>1, <2>2
<1>. QED BY <1>3, <1>4, <1>5, <1>8 DEF OutboxInv

\* One step of the outbox, action by action.
LEMMA StepPreserves == OutboxInv /\ [Next]_vars => OutboxInv'
<1>. USE OutboxAssumption
<1>1. SUFFICES ASSUME OutboxInv, [Next]_vars PROVE OutboxInv'
  OBVIOUS
<1>2. TypeOK'
  BY <1>1, StepTyped
<1>3. ASSUME NEW e \in Events, Publish(e) PROVE OutboxInv'
  <2>1. \A d \in Dispatchers : held[d] # e
    BY <1>1, <1>3 DEF OutboxInv, HolderKnows, Publish
  <2>2. /\ status' = [status EXCEPT ![e] = "PENDING"]
        /\ attempts' = [attempts EXCEPT ![e] = 0]
        /\ deliveries' = [deliveries EXCEPT ![e] = 0]
        /\ reached' = [reached EXCEPT ![e] = FALSE]
        /\ UNCHANGED <<phase, held, seen>>
    BY <1>3 DEF Publish, process
  <2>3. AttemptsAreDeliveries'
    BY <1>1, <2>2 DEF OutboxInv, TypeOK, AttemptsAreDeliveries
  <2>4. \A f \in Events : status'[f] # "DEAD_LETTER" => attempts'[f] < MaxAttempts
    BY <1>1, <2>2 DEF OutboxInv, TypeOK
  <2>5. PublishedWasDelivered'
    BY <1>1, <2>2 DEF OutboxInv, TypeOK, PublishedWasDelivered
  <2>6. \A d \in Dispatchers : HolderKnows(d)'
    BY <1>1, <2>1, <2>2 DEF OutboxInv, TypeOK, HolderKnows
  <2>. QED BY <1>2, <2>3, <2>4, <2>5, <2>6 DEF OutboxInv
<1>4. ASSUME NEW e \in Events, Expire(e) PROVE OutboxInv'
  <2>1. /\ status[e] = "PUBLISHED" /\ status' = [status EXCEPT ![e] = "ABSENT"]
        /\ \A d \in Dispatchers : held[d] # e
        /\ UNCHANGED <<attempts, deliveries, reached, phase, held, seen>>
    BY <1>4 DEF Expire, process, history
  <2>. QED BY <1>1, <1>2, <2>1
       DEF OutboxInv, TypeOK, AttemptsAreDeliveries, PublishedWasDelivered, HolderKnows
<1>5. ASSUME NEW d \in Dispatchers, Step(d) \/ DatabaseError(d) \/ Crash(d) PROVE OutboxInv'
  <2>1. CASE Claim(d)
    <3>1. PICK e \in Events : /\ Claimable(e)
                              /\ status' = [status EXCEPT ![e] = "PROCESSING"]
                              /\ phase' = [phase EXCEPT ![d] = "emitting"]
                              /\ held' = [held EXCEPT ![d] = e]
                              /\ seen' = [seen EXCEPT ![d] = attempts[e]]
                              /\ UNCHANGED <<attempts, deliveries, reached>>
      BY <2>1 DEF Claim, history
    <3>2. status[e] \notin {"ABSENT", "DEAD_LETTER"}
      BY <3>1 DEF Claimable
    <3>3. AttemptsAreDeliveries'
      BY <1>1, <3>1 DEF OutboxInv, TypeOK, AttemptsAreDeliveries
    <3>4. \A f \in Events : status'[f] # "DEAD_LETTER" => attempts'[f] < MaxAttempts
      BY <1>1, <3>1, <3>2 DEF OutboxInv, TypeOK
    <3>5. PublishedWasDelivered'
      BY <1>1, <3>1 DEF OutboxInv, TypeOK, PublishedWasDelivered
    <3>6. HolderKnows(d)'
      BY <1>1, <3>1, <3>2 DEF OutboxInv, TypeOK, HolderKnows, AttemptsAreDeliveries
    <3>7. \A c \in Dispatchers \ {d} : HolderKnows(c)'
      BY <1>1, <3>1 DEF OutboxInv, TypeOK, HolderKnows
    <3>. QED BY <1>2, <3>3, <3>4, <3>5, <3>6, <3>7 DEF OutboxInv
  <2>2. CASE MarkPublished(d) \/ MarkFailed(d)
    BY <1>1, <1>2, <2>2, OutcomeStep
  <2>3. CASE StartPass(d)
    <3>1. HolderKnows(d) /\ HolderKnows(d)'
      BY <1>1, <2>3 DEF OutboxInv, TypeOK, HolderKnows, StartPass
    <3>. QED BY <1>1, <1>2, <2>3, <3>1, QuietStep DEF StartPass, store, history, OutboxInv, TypeOK
  <2>4. CASE EndPass(d) \/ Crash(d)
    <3>1. Release(d, "idle") /\ UNCHANGED <<store, history>>
      BY <2>4 DEF EndPass, Crash
    <3>2. HolderKnows(d)'
      BY <1>1, <3>1, ReleaseTyped DEF HolderKnows
    <3>. QED BY <1>1, <1>2, <3>1, <3>2, ReleaseTyped, QuietStep DEF store, history, OutboxInv, TypeOK
  <2>5. CASE HandlersSucceed(d) \/ HandlerThrows(d) \/ NoListener(d)
    <3>1. HolderKnows(d) /\ phase[d] = "emitting" /\ UNCHANGED <<status, attempts, held, seen>>
      BY <1>1, <2>5 DEF OutboxInv, HandlersSucceed, HandlerThrows, NoListener, Deliver, store
    <3>2. held[d] \in Events /\ deliveries' = [deliveries EXCEPT ![held[d]] = @ + 1]
      BY <2>5, <3>1 DEF HolderKnows, HandlersSucceed, HandlerThrows, NoListener, Deliver
    <3>3. \A e \in Events : reached[e] => reached'[e]
      BY <1>1, <2>5 DEF OutboxInv, TypeOK, HandlersSucceed, HandlerThrows, NoListener, Deliver
    <3>4. /\ phase'[d] \in {"acking", "failing"}
          /\ phase'[d] = "acking" => reached'[held[d]]
      BY <1>1, <2>5, <3>2
      DEF OutboxInv, TypeOK, HandlersSucceed, HandlerThrows, NoListener, Deliver, Unheard
    <3>5. HolderKnows(d)'
      BY <1>1, <3>1, <3>2, <3>4 DEF OutboxInv, TypeOK, HolderKnows
    <3>6. \A e \in Events : deliveries[e] <= deliveries'[e]
      BY <1>1, <3>2 DEF OutboxInv, TypeOK
    <3>7. \A c \in Dispatchers \ {d} : phase'[c] = phase[c]
      BY <1>1, <2>5 DEF OutboxInv, TypeOK, HandlersSucceed, HandlerThrows, NoListener, Deliver
    <3>. QED BY <1>1, <1>2, <3>1, <3>3, <3>5, <3>6, <3>7, QuietStep
  <2>6. CASE DatabaseError(d)
    <3>1. UNCHANGED <<store, history>>
      BY <2>6 DEF DatabaseError
    <3>2. CASE phase[d] = "acking" /\ phase' = [phase EXCEPT ![d] = "failing"]
                /\ UNCHANGED <<held, seen>>
      <4>1. HolderKnows(d) /\ HolderKnows(d)'
        BY <1>1, <3>1, <3>2 DEF OutboxInv, TypeOK, HolderKnows, store, history
      <4>. QED BY <1>1, <1>2, <3>1, <3>2, <4>1, QuietStep DEF store, history, OutboxInv, TypeOK
    <3>3. CASE Release(d, "idle")
      <4>1. HolderKnows(d)'
        BY <1>1, <3>3, ReleaseTyped DEF HolderKnows
      <4>. QED BY <1>1, <1>2, <3>1, <3>3, <4>1, ReleaseTyped, QuietStep
           DEF store, history, OutboxInv, TypeOK
    <3>. QED BY <2>6, <3>2, <3>3 DEF DatabaseError
  <2>. QED BY <1>5, <2>1, <2>2, <2>3, <2>4, <2>5, <2>6 DEF Step
<1>6. CASE Tick \/ UNCHANGED vars
  <2>1. UNCHANGED <<status, attempts, phase, held, seen, deliveries, reached>>
    BY <1>6 DEF Tick, vars, store, process, history
  <2>. QED BY <1>1, <1>2, <2>1
       DEF OutboxInv, AttemptsAreDeliveries, PublishedWasDelivered, HolderKnows
<1>. QED BY <1>1, <1>3, <1>4, <1>5, <1>6 DEF Next

\* Everything the inductive invariant says holds in every reachable state.
THEOREM Invariant == Spec => []OutboxInv
<1>1. Init => OutboxInv
  BY InitEstablishes
<1>2. OutboxInv /\ [Next]_vars => OutboxInv'
  BY StepPreserves
<1>. QED BY <1>1, <1>2, PTL DEF Spec

\* The collection and the dispatchers stay well typed: attempts never passes
\* MAX_ATTEMPTS, a pass never takes more than BATCH_SIZE records.
THEOREM TypeCorrect == Spec => []TypeOK
<1>1. OutboxInv => TypeOK
  BY DEF OutboxInv
<1>. QED BY <1>1, Invariant, PTL

\* No record is given up before MAX_ATTEMPTS deliveries were made of it.
THEOREM AttemptsCovered == Spec => []AttemptsAreDeliveries
<1>1. OutboxInv => AttemptsAreDeliveries
  BY DEF OutboxInv
<1>. QED BY <1>1, Invariant, PTL

\* docs/event-driven-architecture.md:12: no record is PUBLISHED before a bus that has
\* listeners of it called them, however leases run out and stale dispatchers write.
THEOREM PublishedDelivered == Spec => []PublishedWasDelivered
<1>1. OutboxInv => PublishedWasDelivered
  BY DEF OutboxInv
<1>. QED BY <1>1, Invariant, PTL

\* The two together: what DEAD_LETTER and PUBLISHED say of the deliveries of a record.
THEOREM EarnedOutcomes == Spec => []OutcomesAreEarned
<1>1. OutboxInv => OutcomesAreEarned
  BY DEF OutboxInv, OutcomesAreEarned
<1>. QED BY <1>1, Invariant, PTL

\* No step, of a stale dispatcher either, takes a record out of its outcome.
THEOREM FinalOutcome == Spec => OutcomeIsFinal
<1>1. ASSUME OutboxInv, [Next]_vars PROVE [KeepsOutcome]_vars
  <2>. SUFFICES ASSUME Next PROVE KeepsOutcome
    BY <1>1
  <2>1. ASSUME NEW e \in Events, Publish(e) \/ Expire(e) PROVE KeepsOutcome
    BY <1>1, <2>1 DEF OutboxInv, TypeOK, KeepsOutcome, Publish, Expire
  <2>2. ASSUME NEW d \in Dispatchers, Claim(d) PROVE KeepsOutcome
    BY <1>1, <2>2 DEF OutboxInv, TypeOK, KeepsOutcome, Claim, Claimable
  <2>3. ASSUME NEW d \in Dispatchers, MarkPublished(d) \/ MarkFailed(d) PROVE KeepsOutcome
    BY <1>1, <2>3 DEF OutboxInv, TypeOK, KeepsOutcome, MarkPublished, MarkFailed, Matches
  <2>4. CASE UNCHANGED status
    BY <2>4 DEF KeepsOutcome
  <2>5. ASSUME NEW d \in Dispatchers, Step(d) \/ DatabaseError(d) \/ Crash(d)
        PROVE Claim(d) \/ MarkPublished(d) \/ MarkFailed(d) \/ UNCHANGED status
    BY <2>5 DEF Step, StartPass, EndPass, HandlersSucceed, HandlerThrows, NoListener, Deliver,
                DatabaseError, Crash, store
  <2>6. Tick => UNCHANGED status
    BY DEF Tick
  <2>. QED BY <2>1, <2>2, <2>3, <2>4, <2>5, <2>6 DEF Next
<1>. QED BY <1>1, Invariant, PTL DEF Spec, OutcomeIsFinal

\* The outbox implements AtLeastOnce: the mapped step of each action.
THEOREM Refinement == Spec => KeepsPromise
<1>. USE DEF StageOf
<1>1. Init => Promise!Init
  BY DEF Init, Promise!Init
<1>2. ASSUME OutboxInv, [Next]_vars PROVE [Promise!Next]_(Promise!vars)
  <2>1. ASSUME NEW e \in Events, Publish(e) PROVE Promise!Post(e)
    BY <1>2, <2>1 DEF OutboxInv, TypeOK, Publish, Promise!Post
  <2>2. ASSUME NEW e \in Events, Expire(e) PROVE Promise!Forget(e)
    BY <1>2, <2>2 DEF OutboxInv, TypeOK, Expire, history, Promise!Forget
  <2>3. ASSUME NEW d \in Dispatchers,
               HandlersSucceed(d) \/ HandlerThrows(d) \/ NoListener(d)
        PROVE  \E e \in Events : Promise!Attempt(e)
    <3>1. PICK e \in Events : e = held[d] /\ status[e] # "ABSENT"
      BY <1>2, <2>3 DEF OutboxInv, HolderKnows, HandlersSucceed, HandlerThrows, NoListener, Deliver
    <3>. QED BY <1>2, <2>3, <3>1
         DEF OutboxInv, TypeOK, HandlersSucceed, HandlerThrows, NoListener, Deliver, store, Promise!Attempt
  <2>4. ASSUME NEW d \in Dispatchers, MarkPublished(d)
        PROVE  \/ \E e \in Events : Promise!Complete(e)
               \/ UNCHANGED Promise!vars
    <3>1. PICK e \in Events : e = held[d] /\ reached[e] /\ UNCHANGED <<deliveries, reached>>
      BY <1>2, <2>4 DEF OutboxInv, HolderKnows, MarkPublished, history
    <3>2. CASE Matches(d)
      <4>1. /\ status[e] = "PROCESSING" /\ status' = [status EXCEPT ![e] = "PUBLISHED"]
            /\ status \in [Events -> Statuses]
        BY <1>2, <2>4, <3>1, <3>2 DEF OutboxInv, TypeOK, MarkPublished, Matches
      <4>2. Promise!Complete(e)
        BY <3>1, <4>1 DEF Promise!Complete
      <4>. QED BY <4>2
    <3>3. CASE ~Matches(d)
      BY <2>4, <3>1, <3>3 DEF MarkPublished, Promise!vars
    <3>. QED BY <3>2, <3>3, <3>1
  <2>5. ASSUME NEW d \in Dispatchers, MarkFailed(d)
        PROVE  \/ \E e \in Events : Promise!GiveUp(e)
               \/ UNCHANGED Promise!vars
    <3>1. PICK e \in Events : /\ e = held[d] /\ UNCHANGED <<deliveries, reached>>
                              /\ seen[d] + 1 <= deliveries[e]
      BY <1>2, <2>5 DEF OutboxInv, TypeOK, HolderKnows, MarkFailed, history
    <3>2. CASE Matches(d) /\ seen[d] + 1 >= MaxAttempts
      <4>1. deliveries[e] >= MaxAttempts
        BY <1>2, <3>1, <3>2, OutboxAssumption DEF OutboxInv, TypeOK
      <4>2. /\ status[e] = "PROCESSING" /\ status' = [status EXCEPT ![e] = "DEAD_LETTER"]
            /\ status \in [Events -> Statuses]
        BY <1>2, <2>5, <3>1, <3>2 DEF OutboxInv, TypeOK, MarkFailed, DeadLetter, Matches
      <4>3. Promise!GiveUp(e)
        BY <3>1, <4>1, <4>2 DEF Promise!GiveUp
      <4>. QED BY <4>3
    <3>3. CASE Matches(d) /\ ~(seen[d] + 1 >= MaxAttempts)
      BY <1>2, <2>5, <3>1, <3>3 DEF OutboxInv, TypeOK, MarkFailed, Matches, DeadLetter, Promise!vars
    <3>4. CASE ~Matches(d)
      BY <2>5, <3>1, <3>4 DEF MarkFailed, Promise!vars
    <3>. QED BY <3>1, <3>2, <3>3, <3>4
  <2>6. ASSUME NEW d \in Dispatchers, Claim(d) PROVE UNCHANGED Promise!vars
    BY <1>2, <2>6 DEF OutboxInv, TypeOK, Claim, Claimable, history, Promise!vars
  <2>7. ASSUME NEW d \in Dispatchers,
               StartPass(d) \/ EndPass(d) \/ DatabaseError(d) \/ Crash(d)
        PROVE  UNCHANGED Promise!vars
    BY <2>7 DEF StartPass, EndPass, DatabaseError, Crash, store, history, Promise!vars
  <2>8. CASE Tick \/ UNCHANGED vars
    BY <2>8 DEF Tick, vars, store, history, Promise!vars
  <2>9. ASSUME NEW e \in Events,
               \/ Promise!Post(e) \/ Promise!Attempt(e) \/ Promise!Complete(e)
               \/ Promise!GiveUp(e) \/ Promise!Forget(e)
        PROVE  Promise!Next
    BY <2>9 DEF Promise!Next
  <2>10. ASSUME NEW e \in Events, Publish(e) \/ Expire(e) PROVE Promise!Next
    BY <2>1, <2>2, <2>9, <2>10
  <2>11. ASSUME NEW d \in Dispatchers, Step(d) \/ DatabaseError(d) \/ Crash(d)
         PROVE  Promise!Next \/ UNCHANGED Promise!vars
    <3>1. CASE HandlersSucceed(d) \/ HandlerThrows(d) \/ NoListener(d)
      BY <2>3, <2>9, <3>1
    <3>2. CASE MarkPublished(d)
      BY <2>4, <2>9, <3>2
    <3>3. CASE MarkFailed(d)
      BY <2>5, <2>9, <3>3
    <3>4. CASE Claim(d) \/ StartPass(d) \/ EndPass(d) \/ DatabaseError(d) \/ Crash(d)
      BY <2>6, <2>7, <3>4
    <3>. QED BY <2>11, <3>1, <3>2, <3>3, <3>4 DEF Step
  <2>. QED BY <1>2, <2>8, <2>10, <2>11 DEF Next
<1>. QED BY <1>1, <1>2, Invariant, PTL DEF Spec, KeepsPromise, Promise!Spec
=============================================================================
