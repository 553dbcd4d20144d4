---------------------------- MODULE RewardsProofs ----------------------------
(***************************************************************************)
(* Proofs about the achievements of one user: for any number of processes  *)
(* and requests, any activities, badges and ranks, and any crashes.        *)
(***************************************************************************)
EXTENDS Rewards, FiniteSetTheorems, SequenceTheorems, WellFoundedInduction, TLAPS

-----------------------------------------------------------------------------
(* Scripts as sequences.                                                   *)

CallsOf(s) == {s[i] : i \in DOMAIN s}
IsScript(s) == s \in Seq(CallsOf(s))

LEMMA ScriptFacts ==
  ASSUME NEW s, IsScript(s)
  PROVE  Len(s) \in Nat /\ DOMAIN s = 1..Len(s)
<1>1. s \in Seq(CallsOf(s))
  BY DEF IsScript
<1> QED
  BY <1>1, LenProperties

LEMMA SeqIsScript ==
  ASSUME NEW S, NEW s \in Seq(S)
  PROVE  IsScript(s)
<1>1. Len(s) \in Nat /\ DOMAIN s = 1..Len(s) /\ s \in [1..Len(s) -> S]
  BY LenProperties
<1>2. \A i \in 1..Len(s) : s[i] \in CallsOf(s)
  BY <1>1 DEF CallsOf
<1>3. s \in [1..Len(s) -> CallsOf(s)]
  BY <1>1, <1>2
<1>4. s \in Seq(CallsOf(s))
  BY <1>1, <1>3, SeqDef
<1> QED
  BY <1>4 DEF IsScript

LEMMA JoinScripts ==
  ASSUME NEW s, NEW t, IsScript(s), IsScript(t)
  PROVE  /\ IsScript(s \o t) /\ Len(s \o t) = Len(s) + Len(t)
         /\ \A i \in 1..Len(s) : (s \o t)[i] = s[i]
         /\ \A i \in 1..Len(t) : (s \o t)[i + Len(s)] = t[i]
         /\ \A i \in 1..(Len(s) + Len(t)) :
              (s \o t)[i] = IF i <= Len(s) THEN s[i] ELSE t[i - Len(s)]
<1> DEFINE S == CallsOf(s) \cup CallsOf(t)
<1>1. s \in Seq(CallsOf(s)) /\ t \in Seq(CallsOf(t)) /\ CallsOf(s) \subseteq S /\ CallsOf(t) \subseteq S
  BY DEF IsScript
<1>2. s \in Seq(S) /\ t \in Seq(S)
  BY <1>1, SeqMonotonic
<1>3. Len(s) \in Nat /\ Len(t) \in Nat
  BY ScriptFacts
<1> HIDE DEF S
<1>4. /\ s \o t \in Seq(S) /\ Len(s \o t) = Len(s) + Len(t)
      /\ \A i \in 1..(Len(s) + Len(t)) :
              (s \o t)[i] = IF i <= Len(s) THEN s[i] ELSE t[i - Len(s)]
  BY <1>2, ConcatProperties
<1>5. IsScript(s \o t)
  BY <1>4, SeqIsScript
<1>6. ASSUME NEW i \in 1..Len(s) PROVE (s \o t)[i] = s[i]
  BY <1>3, <1>4
<1>7. ASSUME NEW i \in 1..Len(t) PROVE (s \o t)[i + Len(s)] = t[i]
  BY <1>3, <1>4
<1> QED
  BY <1>4, <1>5, <1>6, <1>7

LEMMA RestOfScript ==
  ASSUME NEW s, IsScript(s), s # <<>>
  PROVE  /\ IsScript(Tail(s)) /\ Len(s) \in Nat \ {0} /\ Len(Tail(s)) = Len(s) - 1
         /\ Head(s) = s[1]
         /\ \A i \in 1..(Len(s) - 1) : Tail(s)[i] = s[i + 1]
<1>1. s \in Seq(CallsOf(s))
  BY DEF IsScript
<1>2. /\ Tail(s) \in Seq(CallsOf(s)) /\ Len(Tail(s)) = Len(s)-1
      /\ \A i \in 1 .. Len(Tail(s)) : Tail(s)[i] = s[i+1]
  BY <1>1, HeadTailProperties
<1>3. IsScript(Tail(s))
  BY <1>2, SeqIsScript
<1>4. Len(s) \in Nat \ {0}
  BY <1>1, EmptySeq
<1>5. Head(s) = s[1]
  BY <1>1, <1>4
<1> QED
  BY <1>2, <1>3, <1>4, <1>5

-----------------------------------------------------------------------------
(* What the calls of a script may be.                                      *)

\* What an award books was completed, and its day is that of an entry it has booked.
BooksDone(s, d) ==
  \A i \in DOMAIN s : s[i][1] \in {"create", "day"} => s[i][2] \in Activities /\ d[s[i][2]] # 0
PaysBadges(s) == \A i \in DOMAIN s : s[i][1] = "medal" => s[i][2] \in Badges
DayFollows(s, l) ==
  \A i \in DOMAIN s : s[i][1] = "day" =>
    \/ Activity(s[i][2]) \in l
    \/ i > 1 /\ s[i - 1] = <<"create", s[i][2]>>
Good(s, d, l) == IsScript(s) /\ BooksDone(s, d) /\ PaysBadges(s) /\ DayFollows(s, l)

\* A reply is the last call.
ReplyLast(s) == \A i \in DOMAIN s : s[i][1] = "reply" => i = Len(s)
NoReply(s) == \A i \in DOMAIN s : s[i][1] # "reply"

LEMMA GoodGrows ==
  ASSUME NEW s, NEW d, NEW l, NEW e, NEW m, Good(s, d, l), l \subseteq m,
         \A a \in Activities : d[a] # 0 => e[a] # 0
  PROVE  Good(s, e, m)
<1>1. BooksDone(s, e)
  BY DEF Good, BooksDone
<1>2. DayFollows(s, m)
  BY DEF Good, DayFollows
<1> QED
  BY <1>1, <1>2 DEF Good

LEMMA GoodJoins ==
  ASSUME NEW s, NEW t, NEW d, NEW l, Good(s, d, l), Good(t, d, l)
  PROVE  Good(s \o t, d, l)
<1> DEFINE u == s \o t
<1>1. IsScript(s) /\ IsScript(t)
  BY DEF Good
<1>2. Len(s) \in Nat /\ Len(t) \in Nat /\ DOMAIN s = 1..Len(s) /\ DOMAIN t = 1..Len(t)
  BY <1>1, ScriptFacts
<1>3. /\ IsScript(u) /\ Len(u) = Len(s) + Len(t)
      /\ \A i \in 1..(Len(s) + Len(t)) : u[i] = IF i <= Len(s) THEN s[i] ELSE t[i - Len(s)]
  BY <1>1, JoinScripts
<1>4. DOMAIN u = 1..(Len(s) + Len(t))
  BY <1>3, ScriptFacts
<1> HIDE DEF u
<1>5. ASSUME NEW i \in DOMAIN u
      PROVE  \/ i \in DOMAIN s /\ u[i] = s[i] /\ (i > 1 => u[i - 1] = s[i - 1])
             \/ i - Len(s) \in DOMAIN t /\ u[i] = t[i - Len(s)]
                  /\ (i - Len(s) > 1 => u[i - 1] = t[(i - Len(s)) - 1]) 
  <2>1. i \in Int /\ 1 <= i /\ i <= Len(s) + Len(t)
    BY <1>2, <1>4
  <2>2. CASE i <= Len(s)
    <3>1. i \in DOMAIN s /\ u[i] = s[i]
      BY <1>2, <1>3, <2>1, <2>2
    <3>2. ASSUME i > 1 PROVE u[i - 1] = s[i - 1]
      <4>1. i - 1 \in 1..(Len(s) + Len(t)) /\ i - 1 <= Len(s)
        BY <1>2, <2>1, <2>2, <3>2
      <4> QED
        BY <4>1, <1>3
    <3> QED
      BY <3>1, <3>2
  <2>3. CASE ~(i <= Len(s))
    <3>1. i - Len(s) \in DOMAIN t /\ u[i] = t[i - Len(s)]
      BY <1>2, <1>3, <2>1, <2>3
    <3>2. ASSUME i - Len(s) > 1 PROVE u[i - 1] = t[(i - Len(s)) - 1]
      <4>1. i - 1 \in 1..(Len(s) + Len(t)) /\ ~(i - 1 <= Len(s)) /\ (i - 1) - Len(s) = (i - Len(s)) - 1
        BY <1>2, <2>1, <2>3, <3>2
      <4> QED
        BY <4>1, <1>3
    <3> QED
      BY <3>1, <3>2
  <2> QED
    BY <2>2, <2>3
<1>6. BooksDone(u, d)
  BY <1>5 DEF Good, BooksDone
<1>7. PaysBadges(u)
  BY <1>5 DEF Good, PaysBadges
<1>8. DayFollows(u, l)
  <2>1. ASSUME NEW i \in DOMAIN u, u[i][1] = "day", Activity(u[i][2]) \notin l
        PROVE  i > 1 /\ u[i - 1] = <<"create", u[i][2]>>
    <3>1. CASE i \in DOMAIN s /\ u[i] = s[i] /\ (i > 1 => u[i - 1] = s[i - 1])
      BY <2>1, <3>1 DEF Good, DayFollows
    <3>2. CASE i - Len(s) \in DOMAIN t /\ u[i] = t[i - Len(s)]
                  /\ (i - Len(s) > 1 => u[i - 1] = t[(i - Len(s)) - 1])
      <4>1. i - Len(s) > 1 /\ t[(i - Len(s)) - 1] = <<"create", u[i][2]>>
        BY <2>1, <3>2 DEF Good, DayFollows
      <4>2. i \in Int
        BY <1>2, <1>4
      <4> QED
        BY <1>2, <3>2, <4>1, <4>2
    <3> QED
      BY <1>5, <3>1, <3>2
  <2> QED
    BY <2>1 DEF DayFollows
<1>9. Good(u, d, l)
  BY <1>3, <1>6, <1>7, <1>8 DEF Good
<1> QED
  BY <1>9 DEF u

LEMMA GoodRest ==
  ASSUME NEW s, NEW d, NEW l, Good(s, d, l), s # <<>>,
         Head(s)[1] = "create" => Activity(Head(s)[2]) \in l
  PROVE  Good(Tail(s), d, l)
<1> DEFINE u == Tail(s)
<1>1. /\ IsScript(s) /\ IsScript(u) /\ Len(s) \in Nat \ {0} /\ Len(u) = Len(s) - 1
      /\ Head(s) = s[1] /\ \A i \in 1..(Len(s) - 1) : u[i] = s[i + 1]
  BY RestOfScript DEF Good
<1>2. DOMAIN s = 1..Len(s) /\ DOMAIN u = 1..(Len(s) - 1)
  BY <1>1, ScriptFacts
<1> HIDE DEF u
<1>3. ASSUME NEW i \in DOMAIN u
      PROVE  i + 1 \in DOMAIN s /\ u[i] = s[i + 1] /\ i \in Nat /\ i >= 1 /\ (i > 1 => u[i - 1] = s[i])
  <2>1. i \in Nat /\ 1 <= i /\ i <= Len(s) - 1
    BY <1>1, <1>2
  <2>2. i + 1 \in DOMAIN s /\ u[i] = s[i + 1]
    BY <1>1, <1>2, <2>1
  <2>3. ASSUME i > 1 PROVE u[i - 1] = s[i]
    <3>1. i - 1 \in 1..(Len(s) - 1) /\ (i - 1) + 1 = i
      BY <1>1, <2>1, <2>3
    <3> QED
      BY <1>1, <3>1
  <2> QED
    BY <2>1, <2>2, <2>3
<1>4. BooksDone(u, d)
  BY ZenonT(60), <1>3 DEF Good, BooksDone
<1>5. PaysBadges(u)
  BY <1>3 DEF Good, PaysBadges
<1>6. DayFollows(u, l)
  <2>1. ASSUME NEW i \in DOMAIN u, u[i][1] = "day", Activity(u[i][2]) \notin l
        PROVE  i > 1 /\ u[i - 1] = <<"create", u[i][2]>>
    <3>1. i + 1 \in DOMAIN s /\ u[i] = s[i + 1] /\ i \in Nat /\ i >= 1 /\ (i > 1 => u[i - 1] = s[i])
      BY <1>3
    <3>2. s[(i + 1) - 1] = <<"create", u[i][2]>>
      BY <2>1, <3>1 DEF Good, DayFollows
    <3>3. s[i] = <<"create", u[i][2]>>
      BY <3>1, <3>2
    <3>4. i # 1
      BY <1>1, <2>1, <3>3
    <3> QED
      BY <3>1, <3>3, <3>4
  <2> QED
    BY <2>1 DEF DayFollows
<1>7. Good(u, d, l)
  BY <1>1, <1>4, <1>5, <1>6 DEF Good
<1> QED
  BY <1>7 DEF u

LEMMA ReplyStaysLast ==
  ASSUME NEW s, NEW t, IsScript(s), IsScript(t), NoReply(s), ReplyLast(t)
  PROVE  ReplyLast(s \o t) /\ (NoReply(t) => NoReply(s \o t))
<1> DEFINE u == s \o t
<1>2. Len(s) \in Nat /\ Len(t) \in Nat /\ DOMAIN s = 1..Len(s) /\ DOMAIN t = 1..Len(t)
  BY ScriptFacts
<1>3. /\ IsScript(u) /\ Len(u) = Len(s) + Len(t)
      /\ \A i \in 1..(Len(s) + Len(t)) : u[i] = IF i <= Len(s) THEN s[i] ELSE t[i - Len(s)]
  BY JoinScripts
<1>4. DOMAIN u = 1..(Len(s) + Len(t))
  BY <1>3, ScriptFacts
<1> HIDE DEF u
<1>5. ASSUME NEW i \in DOMAIN u
      PROVE  \/ i \in DOMAIN s /\ u[i] = s[i]
             \/ i \in Int /\ i - Len(s) \in DOMAIN t /\ u[i] = t[i - Len(s)]
  BY <1>2, <1>3, <1>4
<1>6. ReplyLast(u)
  <2>1. ASSUME NEW i \in DOMAIN u, u[i][1] = "reply" PROVE i = Len(u)
    <3>1. i \in Int /\ i - Len(s) \in DOMAIN t /\ t[i - Len(s)][1] = "reply"
      BY <1>5, <2>1 DEF NoReply
    <3>2. i - Len(s) = Len(t)
      BY <3>1 DEF ReplyLast
    <3> QED
      BY SMTT(60), <1>2, <1>3, <3>1, <3>2
  <2> QED
    BY <2>1 DEF ReplyLast
<1>7. NoReply(t) => NoReply(u)
  BY <1>5 DEF NoReply
<1> QED
  BY <1>6, <1>7 DEF u

LEMMA ReplyLastInRest ==
  ASSUME NEW s, IsScript(s), s # <<>>, ReplyLast(s)
  PROVE  ReplyLast(Tail(s))
<1> DEFINE u == Tail(s)
<1>1. /\ IsScript(s) /\ IsScript(u) /\ Len(s) \in Nat \ {0} /\ Len(u) = Len(s) - 1
      /\ \A i \in 1..(Len(s) - 1) : u[i] = s[i + 1]
  BY RestOfScript
<1>2. DOMAIN s = 1..Len(s) /\ DOMAIN u = 1..(Len(s) - 1)
  BY <1>1, ScriptFacts
<1> HIDE DEF u
<1>3. ASSUME NEW i \in DOMAIN u, u[i][1] = "reply" PROVE i = Len(u)
  <2>1. i \in Nat /\ i + 1 \in DOMAIN s /\ s[i + 1][1] = "reply"
    BY <1>1, <1>2, <1>3
  <2>2. i + 1 = Len(s)
    BY <2>1 DEF ReplyLast
  <2> QED
    BY <1>1, <2>1, <2>2
<1>4. ReplyLast(u)
  BY <1>3 DEF ReplyLast
<1> QED
  BY <1>4 DEF u

-----------------------------------------------------------------------------
(* Particular scripts.                                                     *)

Plain(s) == IsScript(s) /\ \A i \in DOMAIN s : s[i][1] \notin {"create", "day", "medal", "reply"}

LEMMA PlainIsGood ==
  ASSUME NEW s, NEW d, NEW l, Plain(s)
  PROVE  Good(s, d, l) /\ NoReply(s)
BY DEF Plain, Good, BooksDone, PaysBadges, DayFollows, NoReply

LEMMA PlainJoins ==
  ASSUME NEW s, NEW t, Plain(s), Plain(t)
  PROVE  Plain(s \o t)
<1>1. /\ Len(s) \in Nat /\ Len(t) \in Nat /\ DOMAIN s = 1..Len(s) /\ DOMAIN t = 1..Len(t)
      /\ IsScript(s \o t) /\ Len(s \o t) = Len(s) + Len(t)
      /\ \A i \in 1..(Len(s) + Len(t)) :
              (s \o t)[i] = IF i <= Len(s) THEN s[i] ELSE t[i - Len(s)]
  BY ScriptFacts, JoinScripts DEF Plain
<1>2. DOMAIN (s \o t) = 1..(Len(s) + Len(t))
  BY <1>1, ScriptFacts
<1>3. ASSUME NEW i \in DOMAIN (s \o t)
      PROVE  \/ i \in DOMAIN s /\ (s \o t)[i] = s[i]
             \/ i - Len(s) \in DOMAIN t /\ (s \o t)[i] = t[i - Len(s)]
  BY <1>1, <1>2
<1> QED
  BY <1>1, <1>3 DEF Plain

LEMMA OnePlain ==
  ASSUME NEW c, c[1] \notin {"create", "day", "medal", "reply"}
  PROVE  Plain(<<c>>)
<1>1. <<c>> \in Seq({c})
  OBVIOUS
<1>2. IsScript(<<c>>)
  BY <1>1, SeqIsScript
<1> QED
  BY <1>2 DEF Plain

LEMMA TwoPlain ==
  ASSUME NEW c, NEW e, c[1] \notin {"create", "day", "medal", "reply"},
         e[1] \notin {"create", "day", "medal", "reply"}
  PROVE  Plain(<<c, e>>)
<1>1. <<c, e>> \in Seq({c, e})
  OBVIOUS
<1>2. IsScript(<<c, e>>)
  BY <1>1, SeqIsScript
<1> QED
  BY <1>2 DEF Plain

LEMMA NonePlain == Plain(<<>>)
<1>1. <<>> \in Seq({})
  OBVIOUS
<1>2. IsScript(<<>>)
  BY <1>1, SeqIsScript
<1> QED
  BY <1>2 DEF Plain

LEMMA RecalculatePlain == Plain(Recalculate) /\ Len(Recalculate) = 4
<1> DEFINE s == <<Do("totals"), Do("dates"), Do("ownerships"), Do("project")>>
<1>1. s \in Seq({Do("totals"), Do("dates"), Do("ownerships"), Do("project")})
  OBVIOUS
<1>2. IsScript(s)
  BY <1>1, SeqIsScript
<1>3. \A i \in DOMAIN s : s[i][1] \notin {"create", "day", "medal", "reply"}
  BY DEF Do
<1>4. Len(s) = 4
  OBVIOUS
<1> QED
  BY <1>2, <1>3, <1>4 DEF Plain, Recalculate

LEMMA BackfillPlain ==
  ASSUME NEW x
  PROVE  /\ Plain(Backfill(x)) /\ Len(Backfill(x)) >= 2
         /\ Backfill(x)[1] = <<"reconcile", x>> /\ Backfill(x)[2] = Do("restore")
<1> DEFINE s == <<<<"reconcile", x>>, Do("restore")>>
           t == <<Do("badgesQuiet"), Do("stamp")>>
           r == Recalculate
<1>1. Plain(s) /\ Plain(t) /\ Plain(r) /\ Len(r) = 4
  BY TwoPlain, RecalculatePlain DEF Do
<1>2. s[1] = <<"reconcile", x>> /\ s[2] = Do("restore") /\ Len(s) = 2
  OBVIOUS
<1>3. IsScript(s) /\ IsScript(r) /\ IsScript(t)
  BY <1>1 DEF Plain
<1> HIDE DEF s, t, r
<1>4. ASSUME NEW u, NEW v, Plain(u), Plain(v), Len(u) >= 2, u[1] = s[1], u[2] = s[2]
      PROVE  /\ Plain(u \o v) /\ Len(u \o v) >= 2
             /\ (u \o v)[1] = s[1] /\ (u \o v)[2] = s[2]
  <2>1. Plain(u \o v)
    BY <1>4, PlainJoins
  <2>2. IsScript(u) /\ IsScript(v)
    BY <1>4 DEF Plain
  <2>3. Len(u) \in Nat /\ Len(v) \in Nat
    BY <2>2, ScriptFacts
  <2>4. Len(u \o v) = Len(u) + Len(v) /\ \A i \in 1..Len(u) : (u \o v)[i] = u[i]
    BY <2>2, JoinScripts
  <2>5. 1 \in 1..Len(u) /\ 2 \in 1..Len(u) /\ Len(u) + Len(v) >= 2
    BY <1>4, <2>3
  <2> QED
    BY <1>4, <2>1, <2>4, <2>5
<1>5. Plain(s \o r) /\ Len(s \o r) >= 2 /\ (s \o r)[1] = s[1] /\ (s \o r)[2] = s[2]
  BY SMTT(60), <1>1, <1>2, <1>4
<1>6. /\ Plain((s \o r) \o t) /\ Len((s \o r) \o t) >= 2
      /\ ((s \o r) \o t)[1] = s[1] /\ ((s \o r) \o t)[2] = s[2]
  BY <1>1, <1>5, <1>4
<1>7. /\ Plain(((s \o r) \o t) \o r) /\ Len(((s \o r) \o t) \o r) >= 2
      /\ (((s \o r) \o t) \o r)[1] = s[1] /\ (((s \o r) \o t) \o r)[2] = s[2]
  BY <1>1, <1>6, <1>4
<1> QED
  BY <1>2, <1>7 DEF Backfill, s, t, r

\* An award books an activity that was completed, and its day next.
LEMMA AwardScriptGood ==
  ASSUME NEW a \in Activities, NEW d, NEW l, d[a] # 0
  PROVE  Good(AwardScript(a), d, l) /\ ReplyLast(AwardScript(a))
<1> DEFINE r == Recalculate
           m == <<<<"migrate", Activity(a)>>, <<"create", a>>, <<"day", a>>>>
           b == <<Do("badgesLive")>>
           e == <<<<"rank", a>>, Do("reply")>>
<1>1. Good(r, d, l) /\ NoReply(r)
  BY RecalculatePlain, PlainIsGood
<1>2. Good(b, d, l) /\ NoReply(b)
  BY OnePlain, PlainIsGood DEF Do
<1>3. Good(m, d, l) /\ NoReply(m)
  <2>1. m \in Seq({<<"migrate", Activity(a)>>, <<"create", a>>, <<"day", a>>})
    OBVIOUS
  <2>2. IsScript(m)
    BY <2>1, SeqIsScript
  <2>3. DOMAIN m = {1, 2, 3} /\ m[1] = <<"migrate", Activity(a)>> /\ m[2] = <<"create", a>> /\ m[3] = <<"day", a>>
    OBVIOUS
  <2>4. BooksDone(m, d) /\ PaysBadges(m) /\ NoReply(m)
    BY <2>3 DEF BooksDone, PaysBadges, NoReply
  <2>5. DayFollows(m, l)
    BY <2>3 DEF DayFollows
  <2> QED
    BY <2>2, <2>4, <2>5 DEF Good
<1>4. Good(e, d, l) /\ ReplyLast(e)
  <2>1. e \in Seq({<<"rank", a>>, Do("reply")})
    OBVIOUS
  <2>2. IsScript(e)
    BY <2>1, SeqIsScript
  <2>3. DOMAIN e = {1, 2} /\ e[1] = <<"rank", a>> /\ e[2][1] = "reply" /\ Len(e) = 2
    BY DEF Do
  <2> QED
    BY <2>2, <2>3 DEF Good, BooksDone, PaysBadges, DayFollows, ReplyLast
<1> HIDE DEF r, m, b, e
<1>5. ASSUME NEW s, NEW t, Good(s, d, l), NoReply(s), Good(t, d, l), NoReply(t)
      PROVE  Good(s \o t, d, l) /\ NoReply(s \o t)
  <2>1. ReplyLast(t)
    BY <1>5 DEF NoReply, ReplyLast
  <2> QED
    BY <1>5, <2>1, GoodJoins, ReplyStaysLast DEF Good
<1>6. Good(r \o m, d, l) /\ NoReply(r \o m)
  BY <1>1, <1>3, <1>5
<1>7. Good(r \o m \o r, d, l) /\ NoReply(r \o m \o r)
  BY <1>1, <1>6, <1>5
<1>8. Good(r \o m \o r \o b, d, l) /\ NoReply(r \o m \o r \o b)
  BY <1>2, <1>7, <1>5
<1>9. Good(r \o m \o r \o b \o r, d, l) /\ NoReply(r \o m \o r \o b \o r)
  BY <1>1, <1>8, <1>5
<1>10. Good(r \o m \o r \o b \o r \o e, d, l) /\ ReplyLast(r \o m \o r \o b \o r \o e)
  BY <1>9, <1>4, GoodJoins, ReplyStaysLast DEF Good
<1> QED
  BY <1>10 DEF AwardScript, r, m, b, e

LEMMA ReadScriptGood ==
  ASSUME NEW d, NEW l
  PROVE  /\ Good(ReadScript, d, l) /\ ReplyLast(ReadScript)
         /\ \E i \in DOMAIN ReadScript : ReadScript[i][1] = "inspect"
<1> DEFINE r == Recalculate
           e == <<Do("inspect"), Do("reply")>>
<1>1. Good(r, d, l) /\ NoReply(r) /\ Len(r) = 4
  BY RecalculatePlain, PlainIsGood
<1>2. e \in Seq({Do("inspect"), Do("reply")}) /\ Len(e) = 2
  OBVIOUS
<1>3. IsScript(e)
  BY <1>2, SeqIsScript
<1>4. DOMAIN e = {1, 2} /\ e[1][1] = "inspect" /\ e[2][1] = "reply" /\ Len(e) = 2
  BY DEF Do
<1>5. Good(e, d, l) /\ ReplyLast(e)
  BY <1>3, <1>4 DEF Good, BooksDone, PaysBadges, DayFollows, ReplyLast
<1> HIDE DEF r, e
<1>6. Good(r \o e, d, l) /\ ReplyLast(r \o e)
  BY <1>1, <1>5, GoodJoins, ReplyStaysLast DEF Good
<1>7. /\ Len(r \o e) = 6 /\ IsScript(r \o e)
      /\ \A i \in 1..Len(e) : (r \o e)[i + Len(r)] = e[i]
  <2>1. IsScript(r) /\ IsScript(e)
    BY <1>1, <1>5 DEF Good
  <2>2. /\ Len(r \o e) = Len(r) + Len(e) /\ IsScript(r \o e)
        /\ \A i \in 1..Len(e) : (r \o e)[i + Len(r)] = e[i]
    BY <2>1, JoinScripts
  <2> QED
    BY <1>1, <1>4, <2>2
<1>8. 5 \in DOMAIN (r \o e) /\ (r \o e)[5] = e[1]
  <2>1. DOMAIN (r \o e) = 1..6
    BY <1>7, ScriptFacts
  <2>2. 1 \in 1..Len(e) /\ 1 + Len(r) = 5
    BY <1>1, <1>4
  <2> QED
    BY <1>7, <2>1, <2>2
<1> QED
  BY <1>4, <1>6, <1>8 DEF ReadScript, r, e

LEMMA UpgradeScriptGood ==
  ASSUME NEW d, NEW l, NEW x, NEW s,
         s \in {Recalculate \o <<<<"migrate", x>>>>, <<>>, Backfill(x)}
  PROVE  Good(s \o <<Do("reply")>>, d, l) /\ ReplyLast(s \o <<Do("reply")>>)
<1> DEFINE e == <<Do("reply")>>
<1>1. Plain(s)
  <2>1. Plain(<<<<"migrate", x>>>>)
    BY OnePlain
  <2>2. Plain(Recalculate \o <<<<"migrate", x>>>>)
    BY <2>1, RecalculatePlain, PlainJoins
  <2> QED
    BY <2>2, NonePlain, BackfillPlain
<1>2. Good(s, d, l) /\ NoReply(s)
  BY <1>1, PlainIsGood
<1>3. e \in Seq({Do("reply")})
  OBVIOUS
<1>4. IsScript(e)
  BY <1>3, SeqIsScript
<1>5. DOMAIN e = {1} /\ e[1][1] = "reply" /\ Len(e) = 1
  BY DEF Do
<1>6. Good(e, d, l) /\ ReplyLast(e)
  BY <1>4, <1>5 DEF Good, BooksDone, PaysBadges, DayFollows, ReplyLast
<1> HIDE DEF e
<1>7. Good(s \o e, d, l) /\ ReplyLast(s \o e)
  BY <1>2, <1>6, GoodJoins, ReplyStaysLast DEF Good
<1> QED
  BY <1>7 DEF e

LEMMA BadgeScriptGood ==
  ASSUME NEW B \in SUBSET Badges, NEW how \in {"live", "quiet"}, NEW d, NEW l
  PROVE  Good(BadgeScript(how, SetToSeq(B)), d, l) /\ NoReply(BadgeScript(how, SetToSeq(B)))
<1> DEFINE order == SetToSeq(B)
           n == Cardinality(B)
           s == BadgeScript(how, order)
<1>1. IsFiniteSet(B)
  BY RewardsAssumption, FS_Subset
<1>2. n \in Nat /\ ExistsBijection(1..n, B)
  BY <1>1, FS_CardinalityType
<1>3. \E f \in [1..n -> B] : IsInjective(f)
  BY <1>2 DEF ExistsBijection, Bijection, Injection, IsInjective
<1>4. order \in [1..n -> B]
  BY <1>3 DEF SetToSeq
<1>5. Len(order) = n /\ order \in Seq(B)
  BY <1>2, <1>4
<1> HIDE DEF order, n
<1>6. ASSUME NEW i \in 1..3 * n PROVE order[(i + 2) \div 3] \in B
  <2>1. (i + 2) \div 3 \in 1..n
    BY <1>2, Z3
  <2> QED
    BY <1>4, <2>1
<1>7. s = [i \in 1..3 * n |-> <<IF i % 3 = 1 THEN how ELSE IF i % 3 = 2 THEN "medal" ELSE "tell",
                                order[(i + 2) \div 3]>>]
  BY <1>5 DEF BadgeScript
<1>8. 3 * n \in Nat
  BY <1>2
<1> HIDE DEF s
<1>9. IsScript(s)
  <2> DEFINE S == {s[i] : i \in 1..3 * n}
  <2>1. s \in [1..3 * n -> S]
    BY <1>7
  <2>2. s \in Seq(S)
    BY <1>8, <2>1, SeqDef
  <2> QED
    BY <2>2, SeqIsScript
<1>10. ASSUME NEW i \in DOMAIN s
       PROVE  s[i][1] \in {how, "medal", "tell"} /\ s[i][2] \in B
  <2>1. i \in 1..3 * n
    BY <1>7
  <2>2. s[i] = <<IF i % 3 = 1 THEN how ELSE IF i % 3 = 2 THEN "medal" ELSE "tell",
                                order[(i + 2) \div 3]>>
    BY <1>7, <2>1
  <2>3. order[(i + 2) \div 3] \in B
    BY <1>6, <2>1
  <2> QED
    BY <2>2, <2>3
<1>11. Good(s, d, l) /\ NoReply(s)
  BY <1>9, <1>10 DEF Good, BooksDone, PaysBadges, DayFollows, NoReply
<1> QED
  BY <1>11 DEF s, order

-----------------------------------------------------------------------------
(* The inductive invariant.                                                *)

\* The rewards of the activities completed so far.
Completed(d) == {Activity(a) : a \in {x \in Activities : d[x] # 0}}
Owing(d) == Completed(d) \cup {Day(d[a]) : a \in {x \in Activities : d[x] # 0}}

FrameFields ==
  {"op", "todo", "total", "longest", "badges", "seen", "left", "made", "base", "owed", "clean"}
FrameShape(f, d, l) ==
  /\ DOMAIN f = FrameFields
  /\ Good(f.todo, d, l) /\ ReplyLast(f.todo)
  /\ f.left \subseteq Owing(d)
  /\ f.owed \subseteq Completed(d)

\* A read goes from its inspection to a repair, which lists what is missing, books it and
\* leaves nothing owed out.
Inspecting(s) == \E i \in DOMAIN s : s[i][1] = "inspect"
Repairing(s) ==
  \E i \in DOMAIN s : i + 1 \in DOMAIN s /\ s[i] = <<"reconcile", None>> /\ s[i + 1][1] = "restore"
Repaid(f, d, set) == \A r \in f.owed : r \in set /\ Day(d[r[2]]) \in set
Restoring(f, d, l) ==
  f.todo # <<>> /\ Head(f.todo)[1] = "restore" /\ Repaid(f, d, l \cup f.left)
ReadPhase(f, d, l) ==
  f.op = "read" =>
    Inspecting(f.todo) \/ Repairing(f.todo) \/ Restoring(f, d, l) \/ Repaid(f, d, l)

FrameHolds(f, d, l) == FrameShape(f, d, l) /\ ReadPhase(f, d, l)

Calendar == today \in Days /\ done \in [Activities -> 0..MaxDay]
LedgerHolds ==
  /\ IsFiniteSet(ledger) /\ ledger \subseteq References
  /\ DOMAIN entry = Activities
  /\ \A a \in Activities : Activity(a) \in ledger => done[a] # 0 /\ entry[a].day \in Days
ProfileShape ==
  /\ DOMAIN profile = {"exists", "shows", "longest", "badges", "current"}
  /\ profile.exists \in BOOLEAN /\ (~profile.exists => profile.shows = {})
FramesHold == DOMAIN frame = Processes /\ \A p \in Processes : FrameHolds(frame[p], done, ledger)

\* What the profile shows and what the requests have read of the ledger are states of it,
\* each of which holds the one before.
Chain ==
  /\ profile.shows \subseteq ledger
  /\ \A p \in Processes :
       /\ frame[p].total \subseteq ledger
       /\ frame[p].total \subseteq profile.shows \/ profile.shows \subseteq frame[p].total
       /\ \A q \in Processes :
            frame[p].total \subseteq frame[q].total \/ frame[q].total \subseteq frame[p].total

AchievementsInv == Calendar /\ LedgerHolds /\ ProfileShape /\ FramesHold /\ Chain

LEMMA FrameGrows ==
  ASSUME NEW f, NEW d, NEW l, NEW e, NEW m, FrameHolds(f, d, l), l \subseteq m,
         \A a \in Activities : d[a] # 0 => e[a] = d[a]
  PROVE  FrameHolds(f, e, m)
<1>1. Good(f.todo, e, m)
  BY GoodGrows DEF FrameHolds, FrameShape
<1>2. Completed(d) \subseteq Completed(e) /\ Owing(d) \subseteq Owing(e)
  BY DEF Completed, Owing
<1>3. FrameShape(f, e, m)
  BY <1>1, <1>2 DEF FrameHolds, FrameShape
<1>4. \A r \in f.owed : e[r[2]] = d[r[2]]
  <2>1. ASSUME NEW r \in f.owed PROVE e[r[2]] = d[r[2]]
    <3>1. PICK a \in Activities : d[a] # 0 /\ r = Activity(a)
      BY DEF FrameHolds, FrameShape, Completed
    <3>2. r[2] = a
      BY <3>1 DEF Activity
    <3> QED
      BY <3>1, <3>2
  <2> QED
    BY <2>1
<1>5. \A set : Repaid(f, d, set) => \A more : set \subseteq more => Repaid(f, e, more)
  BY <1>4 DEF Repaid
<1>6. l \cup f.left \subseteq m \cup f.left
  OBVIOUS
<1>7. ReadPhase(f, e, m)
  BY <1>5, <1>6 DEF FrameHolds, ReadPhase, Restoring
<1> QED
  BY <1>3, <1>7 DEF FrameHolds

LEMMA IdleHolds ==
  ASSUME NEW d, NEW l
  PROVE  FrameHolds(Idle, d, l) /\ Idle.total = {}
<1>1. Good(<<>>, d, l) /\ ReplyLast(<<>>)
  BY NonePlain, PlainIsGood DEF ReplyLast
<1> QED
  BY <1>1 DEF Idle, FrameHolds, FrameShape, FrameFields, ReadPhase

\* What a script has ahead stays ahead when its first call returns and others come first.
LEMMA StaysAhead ==
  ASSUME NEW s, NEW t, IsScript(s), IsScript(t), t # <<>>
  PROVE  /\ Inspecting(t) /\ Head(t)[1] # "inspect" => Inspecting(s \o Tail(t))
         /\ Repairing(t) /\ Head(t)[1] # "reconcile" => Repairing(s \o Tail(t))
<1> DEFINE u == s \o Tail(t)
           n == Len(s)
<1>1. /\ IsScript(Tail(t)) /\ Len(t) \in Nat \ {0} /\ Len(Tail(t)) = Len(t) - 1 /\ Head(t) = t[1]
      /\ \A i \in 1..(Len(t) - 1) : Tail(t)[i] = t[i + 1]
  BY RestOfScript
<1>2. DOMAIN t = 1..Len(t) /\ n \in Nat
  BY ScriptFacts
<1>3. /\ IsScript(u) /\ Len(u) = n + (Len(t) - 1)
      /\ \A i \in 1..Len(Tail(t)) : u[i + n] = Tail(t)[i]
  BY <1>1, JoinScripts
<1>4. DOMAIN u = 1..(n + (Len(t) - 1))
  BY <1>3, ScriptFacts
<1> HIDE DEF u, n
<1>5. ASSUME NEW i \in DOMAIN t, i # 1
      PROVE  (i - 1) + n \in DOMAIN u /\ u[(i - 1) + n] = t[i]
  <2>1. i - 1 \in 1..(Len(t) - 1) /\ (i - 1) + 1 = i
    BY <1>1, <1>2, <1>5
  <2>2. u[(i - 1) + n] = Tail(t)[i - 1]
    BY <1>1, <1>3, <2>1
  <2>3. (i - 1) + n \in DOMAIN u
    BY <1>1, <1>2, <1>4, <2>1
  <2> QED
    BY <1>1, <2>1, <2>2, <2>3
<1>6. ASSUME Inspecting(t), Head(t)[1] # "inspect" PROVE Inspecting(u)
  <2>1. PICK i \in DOMAIN t : t[i][1] = "inspect"
    BY <1>6 DEF Inspecting
  <2>2. i # 1
    BY <1>1, <1>6, <2>1
  <2> QED
    BY <1>5, <2>1, <2>2 DEF Inspecting
<1>7. ASSUME Repairing(t), Head(t)[1] # "reconcile" PROVE Repairing(u)
  <2>1. PICK i \in DOMAIN t :
          i + 1 \in DOMAIN t /\ t[i] = <<"reconcile", None>> /\ t[i + 1][1] = "restore"
    BY <1>7 DEF Repairing
  <2>2. i # 1 /\ i \in Nat
    BY <1>1, <1>2, <1>7, <2>1
  <2>3. i + 1 # 1 /\ ((i + 1) - 1) + n = ((i - 1) + n) + 1
    BY <1>2, <2>2
  <2>4. /\ (i - 1) + n \in DOMAIN u /\ u[(i - 1) + n] = t[i]
    BY <1>5, <2>2
  <2>5. ((i + 1) - 1) + n \in DOMAIN u /\ u[((i + 1) - 1) + n] = t[i + 1]
    BY <1>5, <2>1, <2>3
  <2> QED
    BY <2>1, <2>3, <2>4, <2>5 DEF Repairing
<1> QED
  BY <1>6, <1>7 DEF u

\* The first call of a script returned.
LEMMA FramePops ==
  ASSUME NEW f, NEW g, NEW s, NEW d, NEW l, NEW m, FrameHolds(f, d, l), f.todo # <<>>, l \subseteq m,
         Good(s, d, m), NoReply(s), DOMAIN g = FrameFields, g.op = f.op, g.owed = f.owed,
         g.left \subseteq Owing(d), g.todo = s \o Tail(f.todo),
         Head(f.todo)[1] = "create" => Activity(Head(f.todo)[2]) \in m
  PROVE  /\ FrameShape(g, d, m)
         /\ Head(f.todo)[1] \notin {"inspect", "reconcile", "restore"} => ReadPhase(g, d, m)
<1> DEFINE h == Head(f.todo)[1]
<1>1. /\ Good(f.todo, d, m) /\ IsScript(f.todo) /\ ReplyLast(f.todo) /\ IsScript(s)
  BY GoodGrows DEF FrameHolds, FrameShape, Good
<1>2. Good(Tail(f.todo), d, m) /\ ReplyLast(Tail(f.todo)) /\ IsScript(Tail(f.todo))
  BY <1>1, GoodRest, ReplyLastInRest DEF Good
<1>3. Good(g.todo, d, m) /\ ReplyLast(g.todo)
  BY <1>1, <1>2, GoodJoins, ReplyStaysLast
<1>4. FrameShape(g, d, m)
  BY <1>3 DEF FrameHolds, FrameShape
<1>5. ASSUME h \notin {"inspect", "reconcile", "restore"}, g.op = "read" PROVE ReadPhase(g, d, m)
  <2>1. Inspecting(f.todo) \/ Repairing(f.todo) \/ Repaid(f, d, l)
    BY <1>5 DEF FrameHolds, ReadPhase, Restoring
  <2>2. Inspecting(f.todo) => Inspecting(g.todo)
    BY <1>1, <1>5, StaysAhead
  <2>3. Repairing(f.todo) => Repairing(g.todo)
    BY <1>1, <1>5, StaysAhead
  <2>4. Repaid(f, d, l) => Repaid(g, d, m)
    BY DEF Repaid
  <2> QED
    BY <2>1, <2>2, <2>3, <2>4 DEF ReadPhase
<1>6. g.op # "read" => ReadPhase(g, d, m)
  BY DEF ReadPhase
<1> QED
  BY <1>4, <1>5, <1>6

-----------------------------------------------------------------------------
(* One process takes a step.                                               *)

LEMMA FrameStep ==
  ASSUME AchievementsInv, NEW p \in Processes, NEW f, frame' = [frame EXCEPT ![p] = f],
         UNCHANGED <<today, done>>, FrameHolds(f, done, ledger'),
         ledger \subseteq ledger', LedgerHolds', ProfileShape',
         f.total \in {frame[p].total, ledger, {}},
         profile'.shows \in {profile.shows, frame[p].total}
  PROVE  AchievementsInv'
<1>1. DOMAIN frame = Processes /\ \A q \in Processes : FrameHolds(frame[q], done, ledger)
  BY DEF AchievementsInv, FramesHold
<1>2. DOMAIN frame' = Processes /\ frame'[p] = f /\ \A q \in Processes \ {p} : frame'[q] = frame[q]
  BY <1>1
<1>3. \A q \in Processes : FrameHolds(frame[q], done, ledger')
  BY <1>1, FrameGrows
<1>4. FramesHold'
  BY <1>2, <1>3 DEF FramesHold
<1>5. Calendar'
  BY DEF AchievementsInv, Calendar
<1>6. Chain'
  <2> DEFINE States == {profile.shows, ledger, {}} \cup {frame[q].total : q \in Processes}
  <2>1. \A S, T \in States : S \subseteq ledger /\ (S \subseteq T \/ T \subseteq S)
    BY DEF AchievementsInv, Chain
  <2>2. \A q \in Processes : frame'[q].total \in States
    BY <1>2
  <2>3. profile'.shows \in States
    OBVIOUS
  <2> HIDE DEF States
  <2> QED
    BY <2>1, <2>2, <2>3 DEF Chain
<1> QED
  BY <1>4, <1>5, <1>6 DEF AchievementsInv

\* The same, where the step is a call that returns.
LEMMA CallReturns ==
  ASSUME AchievementsInv, NEW p \in Processes, NEW f, NEW s, Then(p, f, s), frame[p].todo # <<>>,
         DOMAIN f = FrameFields, f.op = frame[p].op, f.todo = frame[p].todo,
         f.owed = frame[p].owed, f.left \subseteq Owing(done),
         f.total \in {frame[p].total, ledger, {}},
         Good(s, done, ledger'), NoReply(s),
         UNCHANGED <<today, done>>, ledger \subseteq ledger', LedgerHolds', ProfileShape',
         profile'.shows \in {profile.shows, frame[p].total},
         Head(frame[p].todo)[1] = "create" => Activity(Head(frame[p].todo)[2]) \in ledger',
         \/ Head(frame[p].todo)[1] \notin {"inspect", "reconcile", "restore"}
         \/ \A g : g.op = f.op /\ g.owed = f.owed /\ g.left = f.left /\ g.todo = s \o Tail(f.todo)
                     => ReadPhase(g, done, ledger')
  PROVE  AchievementsInv'
<1> DEFINE g == [f EXCEPT !.todo = s \o Tail(@)]
<1>1. frame' = [frame EXCEPT ![p] = g]
  BY DEF Then
<1>2. /\ DOMAIN g = FrameFields /\ g.op = f.op /\ g.owed = f.owed /\ g.left = f.left
      /\ g.total = f.total /\ g.todo = s \o Tail(f.todo)
  BY DEF FrameFields
<1> HIDE DEF g
<1>3. FrameHolds(frame[p], done, ledger)
  BY DEF AchievementsInv, FramesHold
<1>4. /\ FrameShape(g, done, ledger')
      /\ Head(frame[p].todo)[1] \notin {"inspect", "reconcile", "restore"} => ReadPhase(g, done, ledger')
  BY <1>2, <1>3, FramePops
<1>5. FrameHolds(g, done, ledger')
  BY <1>2, <1>4 DEF FrameHolds
<1> QED
  BY <1>1, <1>2, <1>5, FrameStep

\* The same, where the call changes neither ledger nor profile.
LEMMA CallReads ==
  ASSUME AchievementsInv, NEW p \in Processes, NEW f, NEW s, NEW c, At(p, c), Then(p, f, s),
         DOMAIN f = FrameFields, f.op = frame[p].op, f.todo = frame[p].todo,
         f.owed = frame[p].owed, f.left = frame[p].left,
         f.total \in {frame[p].total, ledger, {}}, Good(s, done, ledger), NoReply(s),
         UNCHANGED <<today, done, ledger, entry, profile>>,
         c \notin {"create", "inspect", "reconcile", "restore"}
  PROVE  AchievementsInv'
<1>1. LedgerHolds' /\ ProfileShape'
  BY DEF AchievementsInv, LedgerHolds, ProfileShape
<1>2. frame[p].todo # <<>> /\ Head(frame[p].todo)[1] = c
  BY DEF At
<1>3. frame[p].left \subseteq Owing(done)
  BY DEF AchievementsInv, FramesHold, FrameHolds, FrameShape
<1>4. ledger' = ledger /\ profile'.shows = profile.shows
  OBVIOUS
<1> QED
  BY <1>1, <1>2, <1>3, <1>4, CallReturns

LEMMA AtFacts ==
  ASSUME AchievementsInv, NEW p \in Processes, NEW c, At(p, c)
  PROVE  /\ frame[p].todo # <<>> /\ Head(frame[p].todo)[1] = c /\ DOMAIN frame[p] = FrameFields
         /\ frame[p].left \subseteq Owing(done) /\ frame[p].owed \subseteq Completed(done)
         /\ c \in {"create", "day"} => Arg(p) \in Activities /\ done[Arg(p)] # 0
         /\ c = "medal" => Arg(p) \in Badges
         /\ c = "day" => Activity(Arg(p)) \in ledger
<1> DEFINE t == frame[p].todo
<1>1. t # <<>> /\ Head(t)[1] = c
  BY DEF At
<1>2. FrameShape(frame[p], done, ledger)
  BY DEF AchievementsInv, FramesHold, FrameHolds
<1>3. Good(t, done, ledger) /\ IsScript(t)
  BY <1>2 DEF FrameShape, Good
<1>4. Len(t) \in Nat \ {0} /\ DOMAIN t = 1..Len(t) /\ Head(t) = t[1]
  BY <1>1, <1>3, RestOfScript, ScriptFacts
<1> HIDE DEF t
<1>5. 1 \in DOMAIN t
  BY <1>4
<1>6. /\ c \in {"create", "day"} => t[1][2] \in Activities /\ done[t[1][2]] # 0
      /\ c = "medal" => t[1][2] \in Badges
      /\ c = "day" => Activity(t[1][2]) \in ledger
  BY <1>1, <1>3, <1>4, <1>5 DEF Good, BooksDone, PaysBadges, DayFollows
<1> QED
  BY <1>1, <1>2, <1>4, <1>6 DEF FrameShape, Arg, t

\* What the actions keep of the contract, and what they do for it.
Kept == UNCHANGED <<done, ledger>> /\ profile'.shows = profile.shows

LEMMA KeptIsStutter ==
  ASSUME Kept
  PROVE  UNCHANGED Contract!vars
BY DEF Kept, Contract!vars

LEMMA NothingStarts == Good(<<>>, done, ledger) /\ NoReply(<<>>)
BY NonePlain, PlainIsGood

LEMMA ReadsHold ==
  ASSUME AchievementsInv, NEW p \in Processes,
         ReadTotals(p) \/ ReadDates(p) \/ CountOwnerships(p)
  PROVE  AchievementsInv' /\ Kept
<1>1. ASSUME NEW c, At(p, c) PROVE DOMAIN frame[p] = FrameFields
  BY <1>1, AtFacts
<1>2. UNCHANGED <<today, done, ledger, entry, profile>>
  BY DEF ReadTotals, ReadDates, CountOwnerships, context, store
<1>3. CASE ReadTotals(p)
  <2> DEFINE f == [frame[p] EXCEPT !.total = ledger]
  <2>1. At(p, "totals") /\ Then(p, f, <<>>)
    BY <1>3 DEF ReadTotals
  <2>2. /\ DOMAIN f = FrameFields /\ f.op = frame[p].op /\ f.todo = frame[p].todo
        /\ f.owed = frame[p].owed /\ f.left = frame[p].left /\ f.total = ledger
    BY <1>1, <2>1 DEF FrameFields
  <2> HIDE DEF f
  <2> QED
    BY <1>2, <2>1, <2>2, NothingStarts, CallReads DEF Kept
<1>4. CASE ReadDates(p)
  <2> DEFINE f == [frame[p] EXCEPT !.longest = LongestRun(DaysOf(ledger))]
  <2>1. At(p, "dates") /\ Then(p, f, <<>>)
    BY <1>4 DEF ReadDates
  <2>2. /\ DOMAIN f = FrameFields /\ f.op = frame[p].op /\ f.todo = frame[p].todo
        /\ f.owed = frame[p].owed /\ f.left = frame[p].left /\ f.total = frame[p].total
    BY <1>1, <2>1 DEF FrameFields
  <2> HIDE DEF f
  <2> QED
    BY <1>2, <2>1, <2>2, NothingStarts, CallReads DEF Kept
<1>5. CASE CountOwnerships(p)
  <2> DEFINE f == [frame[p] EXCEPT !.badges = Cardinality(Owned)]
  <2>1. At(p, "ownerships") /\ Then(p, f, <<>>)
    BY <1>5 DEF CountOwnerships
  <2>2. /\ DOMAIN f = FrameFields /\ f.op = frame[p].op /\ f.todo = frame[p].todo
        /\ f.owed = frame[p].owed /\ f.left = frame[p].left /\ f.total = frame[p].total
    BY <1>1, <2>1 DEF FrameFields
  <2> HIDE DEF f
  <2> QED
    BY <1>2, <2>1, <2>2, NothingStarts, CallReads DEF Kept
<1> QED
  BY <1>3, <1>4, <1>5

\* A call that leaves the frame as it is.
LEMMA PlainCall ==
  ASSUME AchievementsInv, NEW p \in Processes, NEW s, NEW c, At(p, c), Then(p, frame[p], s),
         Plain(s), UNCHANGED <<today, done, ledger, entry, profile>>,
         c \notin {"create", "inspect", "reconcile", "restore"}
  PROVE  AchievementsInv' /\ Kept
<1>1. DOMAIN frame[p] = FrameFields
  BY AtFacts
<1>2. Good(s, done, ledger) /\ NoReply(s)
  BY PlainIsGood
<1> QED
  BY <1>1, <1>2, CallReads DEF Kept

LEMMA TellingHolds ==
  ASSUME AchievementsInv, NEW p \in Processes,
         CompareRanks(p) \/ Own(p) \/ Tell(p) \/ CreateEvent(p) \/ Notify(p)
  PROVE  AchievementsInv' /\ Kept
<1>1. UNCHANGED <<today, done, ledger, entry, profile>>
  BY DEF CompareRanks, Own, Tell, CreateEvent, Notify, context, store
<1>2. CASE CompareRanks(p)
  <2>1. ASSUME NEW x, NEW y PROVE Plain(<<<<"event", x>>, <<"notify", y>>>>)
    BY TwoPlain
  <2>2. PICK s : At(p, "rank") /\ Then(p, frame[p], s) /\ Plain(s)
    BY <1>2, <2>1, NonePlain DEF CompareRanks
  <2> QED
    BY <1>1, <2>2, PlainCall
<1>3. CASE Own(p)
  BY <1>1, <1>3, NonePlain, PlainCall DEF Own, Return
<1>4. CASE Tell(p)
  <2>1. ASSUME NEW x, NEW y PROVE Plain(Recalculate \o <<<<"event", x>>, <<"notify", y>>>>)
    BY TwoPlain, RecalculatePlain, PlainJoins
  <2>2. PICK s : At(p, "tell") /\ Then(p, frame[p], s) /\ Plain(s)
    BY <1>4, <2>1, NonePlain DEF Tell
  <2> QED
    BY <1>1, <2>2, PlainCall
<1>5. CASE CreateEvent(p)
  BY <1>1, <1>5, NonePlain, PlainCall DEF CreateEvent, Return
<1>6. CASE Notify(p)
  BY <1>1, <1>6, NonePlain, PlainCall DEF Notify, Return
<1> QED
  BY <1>2, <1>3, <1>4, <1>5, <1>6

LEMMA EvaluationsHold ==
  ASSUME AchievementsInv, NEW p \in Processes, EvaluateLive(p) \/ EvaluateQuietly(p)
  PROVE  AchievementsInv' /\ Kept
<1>1. PICK c \in {"badgesLive", "badgesQuiet"}, how \in {"live", "quiet"} :
        At(p, c) /\ Evaluate(p, how)
  BY DEF EvaluateLive, EvaluateQuietly
<1>2. UNCHANGED <<today, done, ledger, entry, profile>>
  BY DEF EvaluateLive, EvaluateQuietly, context, store
<1> DEFINE B == {b \in Badges : Reached(b, ledger, frame[p].seen.longest)}
           f == [frame[p] EXCEPT !.seen = Unseen, !.made = FALSE]
<1>3. Then(p, f, BadgeScript(how, SetToSeq(B)))
  BY <1>1 DEF Evaluate
<1>4. DOMAIN frame[p] = FrameFields
  BY <1>1, AtFacts
<1>5. /\ DOMAIN f = FrameFields /\ f.op = frame[p].op /\ f.todo = frame[p].todo
      /\ f.owed = frame[p].owed /\ f.left = frame[p].left /\ f.total = frame[p].total
  BY <1>4 DEF FrameFields
<1>6. B \in SUBSET Badges
  OBVIOUS
<1> HIDE DEF f, B
<1>7. Good(BadgeScript(how, SetToSeq(B)), done, ledger) /\ NoReply(BadgeScript(how, SetToSeq(B)))
  BY <1>6, BadgeScriptGood
<1> QED
  BY <1>1, <1>2, <1>3, <1>5, <1>7, CallReads DEF Kept

LEMMA RepairingHolds ==
  ASSUME AchievementsInv, NEW p \in Processes, Migrate(p) \/ Repaired(p)
  PROVE  AchievementsInv' /\ Kept
<1>1. UNCHANGED <<today, done, ledger, entry, profile>>
  BY DEF Migrate, Repaired, context, store
<1>2. ASSUME Migrate(p), frame[p].seen.current PROVE AchievementsInv' /\ Kept
  BY <1>1, <1>2, NonePlain, PlainCall DEF Migrate, Return
<1>3. ASSUME Migrate(p), ~frame[p].seen.current PROVE AchievementsInv' /\ Kept
  <2> DEFINE f == [frame[p] EXCEPT !.seen = Unseen]
  <2>1. At(p, "migrate") /\ Then(p, f, Backfill(Arg(p)))
    BY <1>3 DEF Migrate
  <2>2. DOMAIN frame[p] = FrameFields
    BY <2>1, AtFacts
  <2>3. /\ DOMAIN f = FrameFields /\ f.op = frame[p].op /\ f.todo = frame[p].todo
        /\ f.owed = frame[p].owed /\ f.left = frame[p].left /\ f.total = frame[p].total
    BY <2>2 DEF FrameFields
  <2> HIDE DEF f
  <2>4. Good(Backfill(Arg(p)), done, ledger) /\ NoReply(Backfill(Arg(p)))
    BY BackfillPlain, PlainIsGood
  <2> QED
    BY <1>1, <2>1, <2>3, <2>4, CallReads DEF Kept
<1>4. ASSUME Repaired(p) PROVE AchievementsInv' /\ Kept
  <2> DEFINE f == [frame[p] EXCEPT !.made = FALSE]
             s == IF frame[p].made THEN Recalculate \o <<Do("badgesLive")>> \o Recalculate ELSE <<>>
  <2>1. At(p, "repaired") /\ Then(p, f, s)
    BY <1>4 DEF Repaired
  <2>2. DOMAIN frame[p] = FrameFields
    BY <2>1, AtFacts
  <2>3. /\ DOMAIN f = FrameFields /\ f.op = frame[p].op /\ f.todo = frame[p].todo
        /\ f.owed = frame[p].owed /\ f.left = frame[p].left /\ f.total = frame[p].total
    BY <2>2 DEF FrameFields
  <2>4. Plain(s)
    <3>1. Plain(<<Do("badgesLive")>>)
      BY OnePlain DEF Do
    <3>2. Plain(Recalculate \o <<Do("badgesLive")>>)
      BY <3>1, RecalculatePlain, PlainJoins
    <3>3. Plain(Recalculate \o <<Do("badgesLive")>> \o Recalculate)
      BY <3>2, RecalculatePlain, PlainJoins
    <3> QED
      BY <3>3, NonePlain
  <2> HIDE DEF f, s
  <2>5. Good(s, done, ledger) /\ NoReply(s)
    BY <2>4, PlainIsGood
  <2> QED
    BY <1>1, <2>1, <2>3, <2>5, CallReads DEF Kept
<1> QED
  BY <1>2, <1>3, <1>4

-----------------------------------------------------------------------------
(* The profile: a projection never takes away what was shown.              *)

LEMMA NewerShowsMore ==
  ASSUME AchievementsInv, NEW p \in Processes, Newer(p)
  PROVE  profile.shows \subseteq frame[p].total
<1> DEFINE old == profile.shows
           new == frame[p].total
<1>1. /\ old \subseteq ledger /\ new \subseteq ledger /\ IsFiniteSet(ledger)
      /\ new \subseteq old \/ old \subseteq new
  BY DEF AchievementsInv, Chain, LedgerHolds
<1>2. Cardinality(old) < Cardinality(new) \/ Cardinality(old) = Cardinality(new)
  BY DEF Newer
<1> HIDE DEF old, new
<1>3. IsFiniteSet(old) /\ IsFiniteSet(new)
  BY <1>1, FS_Subset
<1>4. Cardinality(old) \in Nat /\ Cardinality(new) \in Nat
  BY <1>3, FS_CardinalityType
<1>5. ASSUME new \subseteq old PROVE new = old
  <2>1. /\ Cardinality(new) <= Cardinality(old)
        /\ Cardinality(old) = Cardinality(new) => old = new
    BY <1>3, <1>5, FS_Subset
  <2> QED
    BY <1>2, <1>4, <2>1
<1> QED
  BY <1>1, <1>5 DEF old, new

\* The profile as it is, or shown anew from a state of the ledger that holds all it showed.
Shown ==
  /\ UNCHANGED <<done, ledger>>
  /\ profile.shows \subseteq profile'.shows /\ profile'.shows \subseteq ledger

LEMMA ShownIsAStep ==
  ASSUME Shown
  PROVE  Contract!Next
BY DEF Shown, Contract!Next, Contract!Show

LEMMA ProjectionHolds ==
  ASSUME AchievementsInv, NEW p \in Processes, Project(p) \/ Enroll(p)
  PROVE  AchievementsInv' /\ Shown
<1>1. PICK c \in {"project", "enroll"} : At(p, c)
  BY DEF Project, Enroll
<1>2. DOMAIN frame[p] = FrameFields /\ frame[p].todo # <<>> /\ Head(frame[p].todo)[1] = c
      /\ frame[p].left \subseteq Owing(done)
  BY <1>1, AtFacts
<1>3. UNCHANGED <<today, done, ledger, entry>>
  BY DEF Project, Enroll, context
<1>4. LedgerHolds'
  BY <1>3 DEF AchievementsInv, LedgerHolds
<1>5. /\ ProfileShape /\ profile.shows \subseteq ledger /\ frame[p].total \subseteq ledger
  BY DEF AchievementsInv, Chain
<1>6. ASSUME NEW answer
      PROVE  /\ DOMAIN Returned(frame[p], answer) = FrameFields
             /\ Returned(frame[p], answer).op = frame[p].op
             /\ Returned(frame[p], answer).todo = frame[p].todo
             /\ Returned(frame[p], answer).owed = frame[p].owed
             /\ Returned(frame[p], answer).left = frame[p].left
             /\ Returned(frame[p], answer).total = {}
  BY <1>2 DEF Returned, FrameFields
<1>7. \/ profile' = profile
      \/ profile' = Projection(p) /\ profile.shows \subseteq frame[p].total
  <2>1. ASSUME Project(p), profile.exists, Newer(p)
        PROVE profile' = Projection(p) /\ profile.shows \subseteq frame[p].total
    BY <2>1, NewerShowsMore DEF Project
  <2>2. ASSUME Project(p), ~(profile.exists /\ Newer(p)) PROVE profile' = profile
    BY <2>2 DEF Project
  <2>3. ASSUME Enroll(p), profile.exists PROVE profile' = profile
    BY <2>3 DEF Enroll
  <2>4. ASSUME Enroll(p), ~profile.exists
        PROVE profile' = Projection(p) /\ profile.shows \subseteq frame[p].total
    BY <1>5, <2>4 DEF Enroll, ProfileShape
  <2> QED
    BY <2>1, <2>2, <2>3, <2>4
<1>8. /\ profile'.shows \in {profile.shows, frame[p].total} /\ ProfileShape'
      /\ profile.shows \subseteq profile'.shows
  <2>1. CASE profile' = profile
    BY <1>5, <2>1 DEF ProfileShape
  <2>2. CASE profile' = Projection(p) /\ profile.shows \subseteq frame[p].total
    BY <2>2 DEF ProfileShape, Projection
  <2> QED
    BY <1>7, <2>1, <2>2
<1>9. \E answer : \/ Then(p, Returned(frame[p], answer), <<>>)
                  \/ Then(p, frame[p], <<Do("enroll")>>)
  BY DEF Project, Enroll
<1>10. Plain(<<Do("enroll")>>)
  BY OnePlain DEF Do
<1>11. Good(<<Do("enroll")>>, done, ledger) /\ NoReply(<<Do("enroll")>>)
  BY <1>10, PlainIsGood
<1>12. c \notin {"create", "inspect", "reconcile", "restore"} /\ ledger' = ledger
  BY <1>3
<1>13. AchievementsInv'
  <2>1. ASSUME Then(p, frame[p], <<Do("enroll")>>) PROVE AchievementsInv'
    BY <1>2, <1>3, <1>4, <1>8, <1>11, <1>12, <2>1, CallReturns
  <2>2. ASSUME NEW answer, Then(p, Returned(frame[p], answer), <<>>) PROVE AchievementsInv'
    <3> DEFINE f == Returned(frame[p], answer)
    <3>1. /\ DOMAIN f = FrameFields /\ f.op = frame[p].op /\ f.todo = frame[p].todo
          /\ f.owed = frame[p].owed /\ f.left = frame[p].left /\ f.total = {}
      BY <1>6
    <3>2. Then(p, f, <<>>)
      BY <2>2
    <3> HIDE DEF f
    <3> QED
      BY <1>2, <1>3, <1>4, <1>8, <1>12, <3>1, <3>2, NothingStarts, CallReturns
  <2> QED
    BY <1>9, <2>1, <2>2
<1>14. Shown
  BY <1>3, <1>5, <1>8 DEF Shown
<1> QED
  BY <1>13, <1>14

LEMMA StampHolds ==
  ASSUME AchievementsInv, NEW p \in Processes, Stamp(p)
  PROVE  AchievementsInv' /\ Kept
<1>1. /\ At(p, "stamp") /\ Then(p, frame[p], <<>>) /\ profile' = [profile EXCEPT !.current = TRUE]
      /\ UNCHANGED <<today, done, ledger, entry>>
  BY DEF Stamp, Return, context
<1>2. /\ frame[p].todo # <<>> /\ Head(frame[p].todo)[1] = "stamp" /\ DOMAIN frame[p] = FrameFields
      /\ frame[p].left \subseteq Owing(done)
  BY <1>1, AtFacts
<1>3. ProfileShape' /\ profile'.shows = profile.shows
  BY <1>1 DEF AchievementsInv, ProfileShape
<1>4. LedgerHolds' /\ ledger' = ledger
  BY <1>1 DEF AchievementsInv, LedgerHolds
<1>5. AchievementsInv'
  BY <1>1, <1>2, <1>3, <1>4, NothingStarts, CallReturns
<1> QED
  BY <1>1, <1>3, <1>5 DEF Kept

-----------------------------------------------------------------------------
(* The ledger: what is booked was earned.                                  *)

\* A reference is booked, if it was not before.
Booked(r) ==
  /\ UNCHANGED done /\ profile'.shows = profile.shows
  /\ ledger' = ledger \cup {r} /\ r \in References
  /\ r \in {Activity(a) : a \in Activities} => r \in Completed(done)

LEMMA BookedIsAStep ==
  ASSUME NEW r, Booked(r)
  PROVE  Contract!Next \/ UNCHANGED Contract!vars
<1>1. CASE r \in ledger
  BY <1>1 DEF Booked, Contract!vars
<1>2. CASE r \notin ledger
  <2>1. Contract!Post(r)
    BY <1>2 DEF Booked, Contract!Post, Completed
  <2> QED
    BY <2>1 DEF Booked, Contract!Next
<1> QED
  BY <1>1, <1>2

LEMMA ActivityFacts ==
  /\ \A a, b : Activity(a) = Activity(b) => a = b
  /\ \A a, d : Activity(a) # Day(d) /\ Activity(a) # Badge(d)
  /\ \A a : Activity(a)[1] = "activity" /\ Activity(a)[2] = a
  /\ \A d : Day(d)[1] = "day" /\ Day(d)[2] = d
BY DEF Activity, Day, Badge

LEMMA BookHolds ==
  ASSUME AchievementsInv, NEW r \in References, ledger' = ledger \cup {r}, UNCHANGED done,
         \/ /\ \A a : r # Activity(a)
            /\ entry' = entry
         \/ \E a \in Activities, day \in Days : \E base :
              r = Activity(a) /\ done[a] # 0 /\ BookActivity(a, day, base)
  PROVE  LedgerHolds'
<1>1. LedgerHolds
  BY DEF AchievementsInv
<1>2. IsFiniteSet(ledger')
  BY <1>1, FS_AddElement DEF LedgerHolds
<1>3. ledger' \subseteq References
  BY <1>1 DEF LedgerHolds, References
<1>4. ASSUME \A a : r # Activity(a), entry' = entry PROVE LedgerHolds'
  BY <1>1, <1>2, <1>3, <1>4 DEF LedgerHolds
<1>5. ASSUME NEW a \in Activities, NEW day \in Days, NEW base, r = Activity(a), done[a] # 0,
             BookActivity(a, day, base)
      PROVE LedgerHolds'
  <2>1. DOMAIN entry' = Activities
    BY <1>1, <1>5 DEF LedgerHolds, BookActivity
  <2>2. ASSUME NEW b \in Activities, Activity(b) \in ledger' PROVE done[b] # 0 /\ entry'[b].day \in Days
    <3>1. CASE Activity(b) \in ledger
      <4>1. done[b] # 0 /\ entry[b].day \in Days
        BY <1>1, <3>1 DEF LedgerHolds
      <4>2. entry'[b] = entry[b]
        BY <1>1, <1>5, <3>1 DEF BookActivity, LedgerHolds
      <4> QED
        BY <4>1, <4>2
    <3>2. CASE Activity(b) \notin ledger
      <4>1. b = a
        BY <1>5, <2>2, <3>2, ActivityFacts
      <4>2. entry'[b] = [day |-> day, base |-> base]
        BY <1>1, <1>5, <3>2, <4>1 DEF BookActivity, LedgerHolds
      <4> QED
        BY <1>5, <4>1, <4>2
    <3> QED
      BY <3>1, <3>2
  <2> QED
    BY <1>2, <1>3, <2>1, <2>2 DEF LedgerHolds
<1> QED
  BY <1>4, <1>5

LEMMA EntryHolds ==
  ASSUME AchievementsInv, NEW p \in Processes, CreateEntry(p)
  PROVE  AchievementsInv' /\ \E r : Booked(r)
<1> DEFINE a == Arg(p)
           f == [frame[p] EXCEPT !.seen = Unseen, !.base = frame[p].seen.xp]
<1>1. /\ At(p, "create") /\ BookActivity(a, today, frame[p].seen.xp) /\ Then(p, f, <<>>)
      /\ UNCHANGED <<today, done, profile>>
  BY DEF CreateEntry, context
<1>2. /\ frame[p].todo # <<>> /\ Head(frame[p].todo)[1] = "create" /\ DOMAIN frame[p] = FrameFields
      /\ frame[p].left \subseteq Owing(done) /\ a \in Activities /\ done[a] # 0
  BY <1>1, AtFacts
<1>3. today \in Days
  BY DEF AchievementsInv, Calendar
<1>4. Activity(a) \in References /\ ledger' = ledger \cup {Activity(a)}
  BY <1>1, <1>2 DEF References, BookActivity, Book
<1>5. LedgerHolds'
  BY <1>1, <1>2, <1>3, <1>4, BookHolds
<1>6. ProfileShape' /\ profile'.shows = profile.shows
  BY <1>1 DEF AchievementsInv, ProfileShape
<1>7. /\ DOMAIN f = FrameFields /\ f.op = frame[p].op /\ f.todo = frame[p].todo
      /\ f.owed = frame[p].owed /\ f.left = frame[p].left /\ f.total = frame[p].total
  BY <1>2 DEF FrameFields
<1>8. Good(<<>>, done, ledger') /\ NoReply(<<>>)
  BY NonePlain, PlainIsGood
<1>9. Activity(Head(frame[p].todo)[2]) \in ledger' /\ ledger \subseteq ledger'
  BY <1>4 DEF Arg
<1> HIDE DEF f, a
<1>10. AchievementsInv'
  BY <1>1, <1>2, <1>5, <1>6, <1>7, <1>8, <1>9, CallReturns
<1>11. Booked(Activity(a))
  BY <1>1, <1>2, <1>4 DEF Booked, Completed
<1> QED
  BY <1>10, <1>11

LEMMA BookingHolds ==
  ASSUME AchievementsInv, NEW p \in Processes, CreateDay(p) \/ Medal(p)
  PROVE  AchievementsInv' /\ \E r : Booked(r)
<1>1. PICK c \in {"day", "medal"}, r \in {Day(entry[Arg(p)].day), Badge(Arg(p))} :
        /\ At(p, c) /\ Then(p, frame[p], <<>>) /\ ledger' = ledger \cup {r}
        /\ c = "day" => r = Day(entry[Arg(p)].day)
        /\ c = "medal" => r = Badge(Arg(p))
        /\ UNCHANGED <<today, done, entry, profile>>
  <2>1. CASE CreateDay(p)
    BY <2>1 DEF CreateDay, Return, context
  <2>2. CASE Medal(p)
    BY <2>2 DEF Medal, Return, context, Book
  <2> QED
    BY <2>1, <2>2
<1>2. /\ frame[p].todo # <<>> /\ Head(frame[p].todo)[1] = c /\ DOMAIN frame[p] = FrameFields
      /\ frame[p].left \subseteq Owing(done)
      /\ c = "day" => Arg(p) \in Activities /\ Activity(Arg(p)) \in ledger
      /\ c = "medal" => Arg(p) \in Badges
  BY <1>1, AtFacts
<1>3. r \in References
  <2>1. CASE c = "day"
    <3>1. entry[Arg(p)].day \in Days
      BY <1>2, <2>1 DEF AchievementsInv, LedgerHolds
    <3> QED
      BY <1>1, <2>1, <3>1 DEF References
  <2>2. CASE c = "medal"
    BY <1>1, <1>2, <2>2 DEF References
  <2> QED
    BY <2>1, <2>2
<1>4. \A a : r # Activity(a)
  BY <1>1, ActivityFacts
<1>5. LedgerHolds'
  BY <1>1, <1>3, <1>4, BookHolds
<1>6. ProfileShape' /\ profile'.shows = profile.shows
  BY <1>1 DEF AchievementsInv, ProfileShape
<1>7. Good(<<>>, done, ledger') /\ NoReply(<<>>) /\ ledger \subseteq ledger'
  BY <1>1, NonePlain, PlainIsGood
<1>8. c \notin {"create", "inspect", "reconcile", "restore"}
  OBVIOUS
<1>9. AchievementsInv'
  BY <1>1, <1>2, <1>5, <1>6, <1>7, <1>8, CallReturns
<1>10. Booked(r)
  BY <1>1, <1>3, <1>4, <1>6 DEF Booked
<1> QED
  BY <1>9, <1>10

-----------------------------------------------------------------------------
(* A read repairs: inspection, list, and the bookings one by one.          *)

LEMMA InspectHolds ==
  ASSUME AchievementsInv, NEW p \in Processes, Inspect(p)
  PROVE  AchievementsInv' /\ Kept
<1> DEFINE f == [frame[p] EXCEPT !.seen = Unseen]
           repair == <<<<"reconcile", None>>, Do("restore"), Do("repaired")>>
<1>1. PICK s \in {repair, Backfill(None)} : At(p, "inspect") /\ Then(p, f, s)
  BY DEF Inspect
<1>2. UNCHANGED <<today, done, ledger, entry, profile>>
  BY DEF Inspect, context, store
<1>3. /\ frame[p].todo # <<>> /\ Head(frame[p].todo)[1] = "inspect" /\ DOMAIN frame[p] = FrameFields
      /\ frame[p].left \subseteq Owing(done)
  BY <1>1, AtFacts
<1>4. /\ DOMAIN f = FrameFields /\ f.op = frame[p].op /\ f.todo = frame[p].todo
      /\ f.owed = frame[p].owed /\ f.left = frame[p].left /\ f.total = frame[p].total
  BY <1>3 DEF FrameFields
<1> HIDE DEF f
<1>5. Plain(s) /\ Len(s) >= 2 /\ s[1] = <<"reconcile", None>> /\ s[2][1] = "restore"
  <2>1. CASE s = repair
    <3>1. s \in Seq({<<"reconcile", None>>, Do("restore"), Do("repaired")})
      BY <2>1
    <3>2. IsScript(s)
      BY <3>1, SeqIsScript
    <3>3. /\ DOMAIN s = {1, 2, 3} /\ s[1] = <<"reconcile", None>> /\ s[2] = Do("restore")
          /\ s[3] = Do("repaired") /\ Len(s) = 3
      BY <2>1
    <3> QED
      BY <3>2, <3>3 DEF Plain, Do
  <2>2. CASE s = Backfill(None)
    BY <2>2, BackfillPlain DEF Do
  <2> QED
    BY <1>1, <2>1, <2>2
<1>6. Good(s, done, ledger) /\ NoReply(s) /\ IsScript(s)
  BY <1>5, PlainIsGood DEF Plain
<1>7. Repairing(s \o Tail(f.todo))
  <2> DEFINE t == Tail(f.todo)
  <2>1. IsScript(frame[p].todo)
    BY DEF AchievementsInv, FramesHold, FrameHolds, FrameShape, Good
  <2>2. IsScript(t)
    BY <1>3, <1>4, <2>1, RestOfScript
  <2> HIDE DEF t
  <2>3. /\ Len(s) \in Nat /\ Len(t) \in Nat /\ IsScript(s \o t) /\ Len(s \o t) = Len(s) + Len(t)
        /\ \A i \in 1..Len(s) : (s \o t)[i] = s[i]
    BY <1>6, <2>2, ScriptFacts, JoinScripts
  <2>4. DOMAIN (s \o t) = 1..(Len(s) + Len(t))
    BY <2>3, ScriptFacts
  <2>5. 1 \in 1..Len(s) /\ 2 \in 1..Len(s) /\ 1 \in DOMAIN (s \o t) /\ 1 + 1 \in DOMAIN (s \o t)
    BY <1>5, <2>3, <2>4
  <2>6. (s \o t)[1] = s[1] /\ (s \o t)[1 + 1] = s[2]
    BY <2>3, <2>5
  <2>7. Repairing(s \o t)
    BY <1>5, <2>5, <2>6 DEF Repairing
  <2> QED
    BY <2>7 DEF t
<1>8. \A g : g.op = f.op /\ g.owed = f.owed /\ g.left = f.left /\ g.todo = s \o Tail(f.todo)
               => ReadPhase(g, done, ledger')
  BY <1>7 DEF ReadPhase
<1>9. LedgerHolds' /\ ProfileShape' /\ ledger' = ledger /\ profile'.shows = profile.shows
  BY <1>2 DEF AchievementsInv, LedgerHolds, ProfileShape
<1>10. AchievementsInv'
  BY <1>1, <1>2, <1>3, <1>4, <1>6, <1>8, <1>9, CallReturns
<1> QED
  BY <1>2, <1>9, <1>10 DEF Kept

LEMMA RewardedFacts ==
  ASSUME NEW x
  PROVE  Rewarded(x) \subseteq Owing(done) /\ Rewarded(None) = Owing(done)
<1>1. \A a : Activity(a) # None
  BY DEF Activity, None
<1> QED
  BY <1>1 DEF Rewarded, Owing, Completed, Durable

LEMMA OwedFacts ==
  ASSUME AchievementsInv, NEW p \in Processes, NEW r \in frame[p].owed
  PROVE  r \in Owing(done) /\ Day(done[r[2]]) \in Owing(done)
<1>1. PICK a \in Activities : done[a] # 0 /\ r = Activity(a)
  BY DEF AchievementsInv, FramesHold, FrameHolds, FrameShape, Completed
<1>2. r[2] = a
  BY <1>1, ActivityFacts
<1> QED
  BY <1>1, <1>2 DEF Owing, Completed

LEMMA ReconcileHolds ==
  ASSUME AchievementsInv, NEW p \in Processes, Reconcile(p)
  PROVE  AchievementsInv' /\ Kept
<1> DEFINE f == [frame[p] EXCEPT !.left = Rewarded(Arg(p)), !.made = FALSE]
           t == frame[p].todo
<1>1. At(p, "reconcile") /\ Then(p, f, <<>>) /\ UNCHANGED <<today, done, ledger, entry, profile>>
  BY DEF Reconcile, context, store
<1>2. /\ t # <<>> /\ Head(t)[1] = "reconcile" /\ DOMAIN frame[p] = FrameFields
  BY <1>1, AtFacts
<1>3. /\ DOMAIN f = FrameFields /\ f.op = frame[p].op /\ f.todo = t
      /\ f.owed = frame[p].owed /\ f.left = Rewarded(Arg(p)) /\ f.total = frame[p].total
  BY <1>2 DEF FrameFields
<1> HIDE DEF f
<1>4. FrameShape(frame[p], done, ledger) /\ ReadPhase(frame[p], done, ledger)
  BY DEF AchievementsInv, FramesHold, FrameHolds
<1>5. IsScript(t) /\ IsScript(<<>>)
  BY <1>4, NonePlain DEF FrameShape, Good, Plain
<1>6. /\ IsScript(Tail(t)) /\ Len(t) \in Nat \ {0} /\ Len(Tail(t)) = Len(t) - 1 /\ Head(t) = t[1]
      /\ \A i \in 1..(Len(t) - 1) : Tail(t)[i] = t[i + 1]
  BY <1>2, <1>5, RestOfScript
<1>7. <<>> \o Tail(t) = Tail(t)
  BY <1>6, ConcatEmptySeq DEF IsScript
<1>8. ASSUME NEW g, g.op = "read", f.op = "read", g.owed = f.owed, g.left = f.left, g.todo = <<>> \o Tail(t)
      PROVE  ReadPhase(g, done, ledger)
  <2>1. CASE Inspecting(t)
    BY <1>2, <1>5, <1>8, <2>1, StaysAhead DEF ReadPhase
  <2>2. CASE Repairing(t)
    <3>1. PICK i \in DOMAIN t :
            i + 1 \in DOMAIN t /\ t[i] = <<"reconcile", None>> /\ t[i + 1][1] = "restore"
      BY <2>2 DEF Repairing
    <3>2. DOMAIN t = 1..Len(t)
      BY <1>5, ScriptFacts
    <3>3. CASE i = 1
      <4>1. Arg(p) = None
        BY <1>6, <3>1, <3>3 DEF Arg
      <4>2. g.left = Owing(done)
        BY <1>3, <1>8, <4>1, RewardedFacts
      <4>3. Repaid(g, done, ledger \cup g.left)
        BY <1>3, <1>8, <4>2, OwedFacts DEF Repaid
      <4>4. 1 \in 1..(Len(t) - 1) /\ Len(t) > 1
        BY <1>6, <3>1, <3>2, <3>3
      <4>5. Tail(t)[1] = t[i + 1] /\ 1 \in DOMAIN Tail(t)
        <5>1. \A j \in 1..(Len(t) - 1) : Tail(t)[j] = t[j + 1]
          BY <1>6
        <5>2. DOMAIN Tail(t) = 1..(Len(t) - 1)
          BY <1>6, ScriptFacts
        <5> QED
          BY <3>3, <4>4, <5>1, <5>2
      <4>6. Tail(t) # <<>>
        <5>1. Len(<<>>) = 0
          BY EmptySeq
        <5>2. Len(t) \in Nat /\ Len(Tail(t)) = Len(t) - 1
          BY <1>6
        <5>3. \A n \in Nat : n > 1 => n - 1 # 0
          OBVIOUS
        <5> QED
          BY <4>4, <5>1, <5>2, <5>3
      <4>7. Head(Tail(t)) = Tail(t)[1]
        BY <1>6, <4>6, RestOfScript
      <4>8. Restoring(g, done, ledger)
        BY <1>7, <1>8, <3>1, <3>3, <4>3, <4>5, <4>6, <4>7 DEF Restoring
      <4> QED
        BY <4>8 DEF ReadPhase
    <3>4. CASE i # 1
      <4>1. i - 1 \in 1..(Len(t) - 1) /\ i \in 1..(Len(t) - 1) /\ (i - 1) + 1 = i
        BY <1>6, <3>1, <3>2, <3>4
      <4>2. Tail(t)[i - 1] = t[i] /\ Tail(t)[(i - 1) + 1] = t[i + 1]
        BY <1>6, <4>1
      <4>3. DOMAIN Tail(t) = 1..(Len(t) - 1)
        BY <1>6, ScriptFacts
      <4>4. Repairing(Tail(t))
        BY <3>1, <4>1, <4>2, <4>3 DEF Repairing
      <4> QED
        BY <1>7, <1>8, <4>4 DEF ReadPhase
    <3> QED
      BY <3>3, <3>4
  <2>3. CASE Repaid(frame[p], done, ledger)
    BY <1>3, <1>8, <2>3 DEF ReadPhase, Repaid
  <2>4. ~Restoring(frame[p], done, ledger)
    BY <1>2 DEF Restoring
  <2> QED
    BY <1>3, <1>4, <1>8, <2>1, <2>2, <2>3, <2>4 DEF ReadPhase
<1>9. \A g : g.op = f.op /\ g.owed = f.owed /\ g.left = f.left /\ g.todo = <<>> \o Tail(f.todo)
               => ReadPhase(g, done, ledger)
  <2>1. ASSUME NEW g, g.op = f.op, g.owed = f.owed, g.left = f.left, g.todo = <<>> \o Tail(f.todo)
        PROVE  ReadPhase(g, done, ledger)
    <3>1. CASE f.op = "read"
      BY <1>3, <1>8, <2>1, <3>1
    <3>2. CASE f.op # "read"
      BY <2>1, <3>2 DEF ReadPhase
    <3> QED
      BY <3>1, <3>2
  <2> QED
    BY <2>1
<1>10. LedgerHolds' /\ ProfileShape' /\ ledger' = ledger /\ profile'.shows = profile.shows
  BY <1>1 DEF AchievementsInv, LedgerHolds, ProfileShape
<1>11. f.left \subseteq Owing(done)
  BY <1>3, RewardedFacts
<1>12. AchievementsInv'
  BY <1>1, <1>2, <1>3, <1>9, <1>10, <1>11, NothingStarts, CallReturns
<1> QED
  BY <1>1, <1>10, <1>12 DEF Kept

LEMMA RestoredHolds ==
  ASSUME AchievementsInv, NEW p \in Processes, Restored(p)
  PROVE  AchievementsInv' /\ Kept
<1> DEFINE t == frame[p].todo
           f == frame[p]
<1>1. /\ At(p, "restore") /\ f.left = {} /\ Then(p, f, <<>>)
      /\ UNCHANGED <<today, done, ledger, entry, profile>>
  BY DEF Restored, Return, context, store
<1>2. /\ t # <<>> /\ Head(t)[1] = "restore" /\ DOMAIN f = FrameFields
  BY <1>1, AtFacts
<1>3. FrameShape(f, done, ledger) /\ ReadPhase(f, done, ledger)
  BY DEF AchievementsInv, FramesHold, FrameHolds
<1>4. IsScript(t) /\ IsScript(<<>>)
  BY <1>3, NonePlain DEF FrameShape, Good, Plain
<1> HIDE DEF f, t
<1>5. ASSUME NEW g, g.op = f.op, g.owed = f.owed, g.left = f.left, g.todo = <<>> \o Tail(t), g.op = "read"
      PROVE  ReadPhase(g, done, ledger)
  <2>1. Inspecting(t) => Inspecting(g.todo)
    BY <1>2, <1>4, <1>5, StaysAhead
  <2>2. Repairing(t) => Repairing(g.todo)
    BY <1>2, <1>4, <1>5, StaysAhead
  <2>3. Restoring(f, done, ledger) \/ Repaid(f, done, ledger) => Repaid(g, done, ledger)
    BY <1>1, <1>5 DEF Restoring, Repaid
  <2> QED
    BY <1>3, <1>5, <2>1, <2>2, <2>3 DEF ReadPhase, f, t
<1>6. \A g : g.op = f.op /\ g.owed = f.owed /\ g.left = f.left /\ g.todo = <<>> \o Tail(f.todo)
               => ReadPhase(g, done, ledger)
  <2>1. \A g : g.op # "read" => ReadPhase(g, done, ledger)
    BY DEF ReadPhase
  <2> QED
    BY <1>5, <2>1 DEF f, t
<1>7. LedgerHolds' /\ ProfileShape' /\ ledger' = ledger /\ profile'.shows = profile.shows
  BY <1>1 DEF AchievementsInv, LedgerHolds, ProfileShape
<1>8. AchievementsInv'
  BY <1>1, <1>2, <1>6, <1>7, NothingStarts, CallReturns DEF f, t
<1> QED
  BY <1>1, <1>7, <1>8 DEF Kept

LEMMA RestoreHolds ==
  ASSUME AchievementsInv, NEW p \in Processes, Restore(p)
  PROVE  AchievementsInv' /\ \E r : Booked(r)
<1>1. PICK r \in Earliest(frame[p].left) :
        /\ IF r[1] = "activity" THEN BookActivity(r[2], done[r[2]], Unset)
           ELSE Book(r) /\ UNCHANGED entry
        /\ frame' = [frame EXCEPT ![p].left = @ \ {r}, ![p].made = @ \/ r \notin ledger]
  BY DEF Restore
<1>2. At(p, "restore") /\ UNCHANGED <<today, done, profile>>
  BY DEF Restore, context
<1>3. /\ frame[p].todo # <<>> /\ Head(frame[p].todo)[1] = "restore" /\ DOMAIN frame[p] = FrameFields
      /\ frame[p].left \subseteq Owing(done)
  BY <1>2, AtFacts
<1>4. PICK a \in Activities : done[a] # 0 /\ (r = Activity(a) \/ r = Day(done[a]))
  BY <1>1, <1>3 DEF Earliest, Owing, Completed
<1>5. done[a] \in Days
  BY <1>4 DEF AchievementsInv, Calendar, Days
<1>6. r \in References
  BY <1>4, <1>5 DEF References
<1>7. ledger' = ledger \cup {r} /\ LedgerHolds'
  <2>1. CASE r = Activity(a)
    <3>1. BookActivity(a, done[a], Unset)
      BY <1>1, <2>1, ActivityFacts
    <3>2. ledger' = ledger \cup {r}
      BY <2>1, <3>1 DEF BookActivity, Book
    <3> QED
      BY <1>2, <1>4, <1>5, <1>6, <2>1, <3>1, <3>2, BookHolds
  <2>2. CASE r = Day(done[a])
    <3>1. r[1] # "activity" /\ \A x : r # Activity(x)
      BY <2>2, ActivityFacts
    <3>2. ledger' = ledger \cup {r} /\ entry' = entry
      BY <1>1, <3>1 DEF Book
    <3> QED
      BY <1>2, <1>6, <3>1, <3>2, BookHolds
  <2> QED
    BY <1>4, <2>1, <2>2
<1> DEFINE f == [frame[p] EXCEPT !.left = @ \ {r}, !.made = @ \/ r \notin ledger]
<1>8. DOMAIN frame = Processes
  BY DEF AchievementsInv, FramesHold
<1>9. frame' = [frame EXCEPT ![p] = f]
  BY <1>1, <1>3, <1>8 DEF FrameFields
<1>10. /\ DOMAIN f = FrameFields /\ f.op = frame[p].op /\ f.todo = frame[p].todo
       /\ f.owed = frame[p].owed /\ f.left = frame[p].left \ {r} /\ f.total = frame[p].total
  BY <1>3 DEF FrameFields
<1> HIDE DEF f
<1>11. FrameHolds(frame[p], done, ledger')
  BY <1>7, FrameGrows DEF AchievementsInv, FramesHold
<1>12. FrameHolds(f, done, ledger')
  <2>1. FrameShape(f, done, ledger')
    BY <1>10, <1>11 DEF FrameHolds, FrameShape
  <2>2. ledger' \cup frame[p].left \subseteq ledger' \cup f.left
    BY <1>7, <1>10
  <2>3. Repaid(frame[p], done, ledger' \cup frame[p].left) => Repaid(f, done, ledger' \cup f.left)
    BY <1>10, <2>2 DEF Repaid
  <2>4. Repaid(frame[p], done, ledger') => Repaid(f, done, ledger')
    BY <1>10 DEF Repaid
  <2>5. ReadPhase(f, done, ledger')
    BY <1>10, <1>11, <2>3, <2>4 DEF FrameHolds, ReadPhase, Restoring
  <2> QED
    BY <2>1, <2>5 DEF FrameHolds
<1>13. ProfileShape' /\ profile'.shows = profile.shows
  BY <1>2 DEF AchievementsInv, ProfileShape
<1>14. AchievementsInv'
  BY <1>2, <1>7, <1>9, <1>10, <1>12, <1>13, FrameStep
<1>15. Booked(r)
  <2>1. r \in {Activity(x) : x \in Activities} => r \in Completed(done)
    BY <1>4, ActivityFacts DEF Completed
  <2> QED
    BY <1>2, <1>6, <1>7, <1>13, <2>1 DEF Booked
<1> QED
  BY <1>14, <1>15

-----------------------------------------------------------------------------
(* Requests begin and end; the user and the clock go on.                   *)

LEMMA ReplyHolds ==
  ASSUME AchievementsInv, NEW p \in Processes, Reply(p)
  PROVE  AchievementsInv' /\ Kept
<1>1. /\ frame' = [frame EXCEPT ![p] = Idle]
      /\ UNCHANGED <<today, done, ledger, entry, profile>>
  BY DEF Reply, context, store
<1>2. LedgerHolds' /\ ProfileShape' /\ ledger' = ledger /\ profile'.shows = profile.shows
  BY <1>1 DEF AchievementsInv, LedgerHolds, ProfileShape
<1>3. FrameHolds(Idle, done, ledger') /\ Idle.total = {}
  BY IdleHolds
<1>4. AchievementsInv'
  BY <1>1, <1>2, <1>3, FrameStep
<1> QED
  BY <1>1, <1>2, <1>4 DEF Kept

LEMMA StartHolds ==
  ASSUME AchievementsInv, NEW p \in Processes, NEW op, NEW script, NEW owed, Start(p, op, script, owed),
         Good(script, done, ledger), ReplyLast(script), owed \subseteq Completed(done),
         op = "read" => Inspecting(script)
  PROVE  AchievementsInv' /\ Kept
<1> DEFINE f == [Idle EXCEPT !.op = op, !.todo = script, !.owed = owed]
<1>1. /\ frame' = [frame EXCEPT ![p] = f]
      /\ UNCHANGED <<today, done, ledger, entry, profile>>
  BY DEF Start, store
<1>2. LedgerHolds' /\ ProfileShape' /\ ledger' = ledger /\ profile'.shows = profile.shows
  BY <1>1 DEF AchievementsInv, LedgerHolds, ProfileShape
<1>3. /\ DOMAIN f = FrameFields /\ f.op = op /\ f.todo = script /\ f.owed = owed
      /\ f.left = {} /\ f.total = {}
  BY DEF Idle, FrameFields
<1> HIDE DEF f
<1>4. FrameHolds(f, done, ledger')
  BY <1>2, <1>3 DEF FrameHolds, FrameShape, ReadPhase
<1>5. AchievementsInv'
  BY <1>1, <1>2, <1>3, <1>4, FrameStep
<1> QED
  BY <1>1, <1>2, <1>5 DEF Kept

LEMMA StartsHold ==
  ASSUME AchievementsInv, NEW p \in Processes, Award(p) \/ Read(p) \/ Upgrade(p)
  PROVE  AchievementsInv' /\ Kept
<1>1. CASE Award(p)
  <2>1. PICK a \in Activities : done[a] # 0 /\ Start(p, "award", AwardScript(a), {Activity(a)})
    BY <1>1 DEF Award, Durable
  <2>2. Good(AwardScript(a), done, ledger) /\ ReplyLast(AwardScript(a))
    BY <2>1, AwardScriptGood
  <2>3. {Activity(a)} \subseteq Completed(done)
    BY <2>1 DEF Completed
  <2> QED
    BY <2>1, <2>2, <2>3, StartHolds
<1>2. CASE Read(p)
  <2>1. /\ Good(ReadScript, done, ledger) /\ ReplyLast(ReadScript)
        /\ \E i \in DOMAIN ReadScript : ReadScript[i][1] = "inspect"
    BY ReadScriptGood
  <2>2. Inspecting(ReadScript)
    BY <2>1 DEF Inspecting
  <2>3. {Activity(a) : a \in Durable} \subseteq Completed(done)
    BY DEF Durable, Completed
  <2> QED
    BY <1>2, <2>1, <2>2, <2>3, StartHolds DEF Read
<1>3. CASE Upgrade(p)
  <2>1. PICK s \in {Recalculate \o <<<<"migrate", None>>>>, <<>>, Backfill(None)} :
          Start(p, "upgrade", s \o <<Do("reply")>>, {})
    BY <1>3 DEF Upgrade
  <2>2. Good(s \o <<Do("reply")>>, done, ledger) /\ ReplyLast(s \o <<Do("reply")>>)
    BY <2>1, UpgradeScriptGood
  <2> QED
    BY <2>1, <2>2, StartHolds
<1> QED
  BY <1>1, <1>2, <1>3

\* A process dies: its request is gone, the others are not clean.
LEMMA CrashHolds ==
  ASSUME AchievementsInv, NEW p \in Processes, Crash(p)
  PROVE  AchievementsInv' /\ Kept
<1>1. /\ frame' = [q \in Processes |-> IF q = p THEN Idle
                                    ELSE [frame[q] EXCEPT !.clean = frame[q].op = "idle"]]
      /\ UNCHANGED <<today, done, ledger, entry, profile>>
  BY DEF Crash, store
<1>2. \A q \in Processes : FrameHolds(frame[q], done, ledger)
  BY DEF AchievementsInv, FramesHold
<1>3. ASSUME NEW q \in Processes
      PROVE  /\ FrameHolds(frame'[q], done, ledger)
             /\ frame'[q].total \in {frame[q].total, {}}
  <2>1. CASE q = p
    BY <1>1, <2>1, IdleHolds
  <2>2. CASE q # p
    <3> DEFINE f == [frame[q] EXCEPT !.clean = frame[q].op = "idle"]
    <3>1. frame'[q] = f
      BY <1>1, <2>2
    <3>2. DOMAIN frame[q] = FrameFields
      BY <1>2 DEF FrameHolds, FrameShape
    <3>3. /\ DOMAIN f = FrameFields /\ f.op = frame[q].op /\ f.todo = frame[q].todo
          /\ f.owed = frame[q].owed /\ f.left = frame[q].left /\ f.total = frame[q].total
      BY <3>2 DEF FrameFields
    <3> HIDE DEF f
    <3>4. FrameHolds(f, done, ledger)
      BY <1>2, <3>3 DEF FrameHolds, FrameShape, ReadPhase, Restoring, Repaid
    <3> QED
      BY <3>1, <3>3, <3>4
  <2> QED
    BY <2>1, <2>2
<1>4. FramesHold'
  BY <1>1, <1>3 DEF FramesHold
<1>5. Chain'
  BY <1>1, <1>3 DEF AchievementsInv, Chain
<1>6. LedgerHolds' /\ ProfileShape' /\ Calendar' /\ profile'.shows = profile.shows
  BY <1>1 DEF AchievementsInv, LedgerHolds, ProfileShape, Calendar
<1> QED
  BY <1>1, <1>4, <1>5, <1>6 DEF AchievementsInv, Kept

LEMMA NextDayHolds ==
  ASSUME AchievementsInv, NextDay
  PROVE  AchievementsInv' /\ Kept
<1>1. /\ today < MaxDay /\ today' = today + 1
      /\ UNCHANGED <<done, ledger, entry, profile, frame>>
  BY DEF NextDay, store
<1>2. Calendar'
  BY <1>1, RewardsAssumption DEF AchievementsInv, Calendar, Days
<1> QED
  BY <1>1, <1>2 DEF AchievementsInv, LedgerHolds, ProfileShape, FramesHold, Chain, Kept

LEMMA CompleteHolds ==
  ASSUME AchievementsInv, NEW a \in Activities, Complete(a)
  PROVE  AchievementsInv' /\ Contract!Next
<1>1. /\ done[a] = 0 /\ done' = [done EXCEPT ![a] = today]
      /\ UNCHANGED <<today, ledger, entry, profile, frame>>
  BY DEF Complete, store
<1>2. today \in Days /\ today # 0 /\ done \in [Activities -> 0..MaxDay] /\ today \in 0..MaxDay
  BY RewardsAssumption DEF AchievementsInv, Calendar, Days
<1>3. Calendar'
  BY <1>1, <1>2 DEF Calendar
<1>4. done'[a] # 0 /\ \A b \in Activities : (done[b] # 0 => done'[b] = done[b]) /\ (b # a => done'[b] = done[b])
  BY <1>1, <1>2
<1>5. LedgerHolds'
  BY <1>1, <1>4 DEF AchievementsInv, LedgerHolds
<1>6. FramesHold'
  <2>1. \A p \in Processes : FrameHolds(frame[p], done', ledger)
    BY <1>4, FrameGrows DEF AchievementsInv, FramesHold
  <2> QED
    BY <1>1, <2>1 DEF AchievementsInv, FramesHold
<1>7. ProfileShape' /\ Chain'
  BY <1>1 DEF AchievementsInv, ProfileShape, Chain
<1>8. Completed(done') = Completed(done) \cup {Activity(a)} /\ Activity(a) \notin Completed(done)
  BY <1>1, <1>4, ActivityFacts DEF Completed
<1>9. Contract!Earn(Activity(a))
  BY <1>1, <1>8 DEF Contract!Earn, Completed
<1>10. Contract!Next
  BY <1>9 DEF Contract!Next, References
<1> QED
  BY <1>3, <1>5, <1>6, <1>7, <1>10 DEF AchievementsInv

-----------------------------------------------------------------------------
(* The theorems.                                                           *)

LEMMA StepHolds ==
  ASSUME AchievementsInv, NEW p \in Processes, Step(p)
  PROVE  AchievementsInv' /\ (Kept \/ Shown \/ \E r : Booked(r))
<1>1. CASE ReadTotals(p) \/ ReadDates(p) \/ CountOwnerships(p)
  BY <1>1, ReadsHold
<1>2. CASE Project(p) \/ Enroll(p)
  BY <1>2, ProjectionHolds
<1>3. CASE Migrate(p) \/ Repaired(p)
  BY <1>3, RepairingHolds
<1>4. CASE Inspect(p)
  BY <1>4, InspectHolds
<1>5. CASE Reconcile(p)
  BY <1>5, ReconcileHolds
<1>6. CASE Restore(p)
  BY <1>6, RestoreHolds
<1>7. CASE Restored(p)
  BY <1>7, RestoredHolds
<1>8. CASE Stamp(p)
  BY <1>8, StampHolds
<1>9. CASE CreateEntry(p)
  BY <1>9, EntryHolds
<1>10. CASE CreateDay(p) \/ Medal(p)
  BY <1>10, BookingHolds
<1>11. CASE CompareRanks(p) \/ Own(p) \/ Tell(p) \/ CreateEvent(p) \/ Notify(p)
  BY <1>11, TellingHolds
<1>12. CASE EvaluateLive(p) \/ EvaluateQuietly(p)
  BY <1>12, EvaluationsHold
<1>13. CASE Reply(p)
  BY <1>13, ReplyHolds
<1> QED
  BY <1>1, <1>2, <1>3, <1>4, <1>5, <1>6, <1>7, <1>8, <1>9, <1>10, <1>11, <1>12, <1>13 DEF Step

LEMMA NextHolds ==
  ASSUME AchievementsInv, [Next]_vars
  PROVE  AchievementsInv' /\ [Contract!Next]_(Contract!vars)
<1>1. ASSUME NEW p \in Processes, Step(p) PROVE AchievementsInv' /\ [Contract!Next]_(Contract!vars)
  BY <1>1, StepHolds, KeptIsStutter, ShownIsAStep, BookedIsAStep
<1>2. ASSUME NEW p \in Processes, Award(p) \/ Read(p) \/ Upgrade(p) \/ Crash(p)
      PROVE  AchievementsInv' /\ [Contract!Next]_(Contract!vars)
  BY <1>2, StartsHold, CrashHolds, KeptIsStutter
<1>3. CASE NextDay
  BY <1>3, NextDayHolds, KeptIsStutter
<1>4. ASSUME NEW a \in Activities, Complete(a) PROVE AchievementsInv' /\ [Contract!Next]_(Contract!vars)
  BY <1>4, CompleteHolds
<1>5. CASE UNCHANGED vars
  <2>1. UNCHANGED <<today, done, ledger, entry, profile, frame>>
    BY <1>5 DEF vars
  <2>2. Kept
    BY <2>1 DEF Kept
  <2> QED
    BY <2>1, <2>2, KeptIsStutter DEF AchievementsInv, Calendar, LedgerHolds, ProfileShape, FramesHold, Chain
<1> QED
  BY <1>1, <1>2, <1>3, <1>4, <1>5 DEF Next

LEMMA InitHolds == Init => AchievementsInv /\ Contract!Init
<1> SUFFICES ASSUME Init PROVE AchievementsInv /\ Contract!Init
  OBVIOUS
<1>1. /\ today = 1 /\ done = [a \in Activities |-> 0] /\ ledger = {}
      /\ entry = [a \in Activities |-> [day |-> 0, base |-> Unset]]
      /\ profile = [exists |-> FALSE, shows |-> {}, longest |-> 0, badges |-> 0, current |-> FALSE]
      /\ frame = [p \in Processes |-> Idle]
  BY DEF Init
<1>2. Calendar
  BY <1>1, RewardsAssumption DEF Calendar, Days
<1>3. LedgerHolds
  BY <1>1, FS_EmptySet DEF LedgerHolds
<1>4. ProfileShape
  BY <1>1 DEF ProfileShape
<1>5. FramesHold
  BY <1>1, IdleHolds DEF FramesHold
<1>6. Chain
  BY <1>1, IdleHolds DEF Chain
<1>7. Contract!Init
  BY <1>1 DEF Contract!Init
<1> QED
  BY <1>2, <1>3, <1>4, <1>5, <1>6, <1>7 DEF AchievementsInv

\* What was completed is booked on its day, scripts are sound, and what the profile shows and
\* the requests have read are states of the ledger that hold one another.
THEOREM AchievementsInvariant == Spec => []AchievementsInv
<1>1. ASSUME AchievementsInv, [Next]_vars PROVE AchievementsInv'
  BY <1>1, NextHolds
<1> QED
  BY <1>1, InitHolds, PTL DEF Spec

\* However the requests interleave and whenever one dies, the ledger only grows, every
\* activity in it was completed, and the profile shows a state of it that holds all it
\* showed before (docs/challenges-and-gamification.md:53-60).
THEOREM LedgerIsTheTruth == Spec => Promise
<1>1. ASSUME AchievementsInv, [Next]_vars PROVE [Contract!Next]_(Contract!vars)
  BY <1>1, NextHolds
<1> QED
  BY <1>1, InitHolds, AchievementsInvariant, PTL DEF Spec, Promise, Contract!Spec

\* A read that is about to reply has booked what was completed before it began and was
\* not booked (gamification.service.ts:932-937).
THEOREM ReadsRepair == Spec => []RepairedByRead
<1>1. ASSUME AchievementsInv PROVE RepairedByRead
  <2>1. SUFFICES ASSUME NEW p \in Processes, frame[p].op = "read", At(p, "reply")
                 PROVE  \A r \in frame[p].owed : r \in ledger /\ Day(done[r[2]]) \in ledger
    BY DEF RepairedByRead
  <2> DEFINE t == frame[p].todo
  <2>2. FrameShape(frame[p], done, ledger) /\ ReadPhase(frame[p], done, ledger)
    BY <1>1 DEF AchievementsInv, FramesHold, FrameHolds
  <2>3. IsScript(t) /\ ReplyLast(t) /\ t # <<>> /\ Head(t)[1] = "reply"
    BY <2>1, <2>2 DEF FrameShape, Good, At
  <2> HIDE DEF t
  <2>4. Len(t) \in Nat \ {0} /\ DOMAIN t = 1..Len(t) /\ Head(t) = t[1]
    BY <2>3, RestOfScript, ScriptFacts
  <2>5. 1 \in DOMAIN t
    BY <2>4
  <2>6. Len(t) = 1
    BY <2>3, <2>4, <2>5 DEF ReplyLast
  <2>7. \A i \in DOMAIN t : i = 1
    BY <2>4, <2>6
  <2>8. t[1][1] = "reply" /\ 1 + 1 # 1
    BY <2>3, <2>4
  <2>9. ~Inspecting(t)
    BY <2>7, <2>8 DEF Inspecting
  <2>10. ~Repairing(t)
    BY <2>7, <2>8 DEF Repairing
  <2>11. ~Restoring(frame[p], done, ledger)
    BY <2>3 DEF Restoring, t
  <2> QED
    BY <2>1, <2>2, <2>9, <2>10, <2>11 DEF ReadPhase, Repaid, t
<1> QED
  BY <1>1, AchievementsInvariant, PTL

-----------------------------------------------------------------------------
(* Streaks, ranks and sums of XP.                                          *)

\* A set of natural numbers has a least element.
LEMMA LeastExists ==
  ASSUME NEW S \in SUBSET Nat, S # {}
  PROVE  \E x \in S : \A y \in S : x <= y
<1> DEFINE Less == OpToRel(<, Nat)
<1>1. IsWellFoundedOn(Less, Nat)
  BY NatLessThanWellFounded
<1> HIDE DEF Less
<1>2. PICK x \in S : \A y \in S : <<y, x>> \notin Less
  BY <1>1, WFMin
<1>3. ASSUME NEW y \in S PROVE x <= y
  <2>1. x \in Nat /\ y \in Nat
    OBVIOUS
  <2>2. y < x => <<y, x>> \in Less
    BY <2>1 DEF Less, OpToRel
  <2> QED
    BY <1>2, <2>1, <2>2
<1> QED
  BY <1>3

\* A set of natural numbers up to n has a greatest one.
LEMMA GreatestExists ==
  ASSUME NEW n \in Nat, NEW S \in SUBSET 0..n, S # {}
  PROVE  \E x \in S : \A y \in S : y <= x
<1> DEFINE T == {k \in Nat : \A y \in S : y <= k}
<1>1. n \in T /\ T \in SUBSET Nat
  OBVIOUS
<1> HIDE DEF T
<1>2. PICK k \in T : \A j \in T : k <= j
  BY <1>1, LeastExists
<1>3. k \in Nat /\ \A y \in S : y \in Nat /\ y <= k
  BY <1>2 DEF T
<1>4. CASE k \in S
  BY <1>3, <1>4
<1>5. CASE k \notin S
  <2>1. PICK x \in S : TRUE
    OBVIOUS
  <2>2. k # 0 /\ k - 1 \in Nat
    BY <1>3, <1>5, <2>1
  <2>3. \A y \in S : y <= k - 1
    <3>1. ASSUME NEW y \in S PROVE y <= k - 1
      <4>1. y \in Nat /\ y <= k /\ y # k
        BY <1>3, <1>5
      <4> QED
        BY <1>3, <4>1
    <3> QED
      BY <3>1
  <2>4. k - 1 \in T
    BY <2>2, <2>3 DEF T
  <2>5. k <= k - 1
    BY <1>2, <2>4
  <2> QED
    BY <1>3, <2>5
<1> QED
  BY <1>4, <1>5

LEMMA MaxIs ==
  ASSUME NEW S \in SUBSET Nat, NEW m \in S, \A y \in S : y <= m
  PROVE  Max(S) = m
<1>1. \A y \in S : m >= y
  OBVIOUS
<1>2. PICK x : x \in S /\ (\A y \in S : x >= y) /\ x = Max(S)
  BY <1>1 DEF Max
<1>3. x \in Nat /\ m \in Nat /\ x >= m /\ m >= x
  BY <1>1, <1>2
<1> QED
  BY <1>2, <1>3

\* The run that ends at a date, by recursion.
RunOf(f, D) ==
  f = [d \in 0..MaxDay |-> IF d = 0 \/ d \notin D THEN 0 ELSE f[d - 1] + 1]

\* The last date up to d that is not in D, or 0.
Gap(d, D) == CHOOSE e \in 0..d : (e = 0 \/ e \notin D) /\ \A x \in (e + 1)..d : x \in D

LEMMA GapFacts ==
  ASSUME NEW D, NEW d \in Nat
  PROVE  /\ Gap(d, D) \in 0..d /\ (Gap(d, D) = 0 \/ Gap(d, D) \notin D)
         /\ \A x \in (Gap(d, D) + 1)..d : x \in D
<1> DEFINE S == {e \in 0..d : e = 0 \/ e \notin D}
<1>1. S \in SUBSET 0..d /\ 0 \in S
  OBVIOUS
<1> HIDE DEF S
<1>2. PICK e \in S : \A y \in S : y <= e
  BY <1>1, GreatestExists
<1>3. e \in 0..d /\ (e = 0 \/ e \notin D)
  BY DEF S
<1>4. ASSUME NEW x \in (e + 1)..d PROVE x \in D
  <2>1. x \in 0..d /\ x > e /\ e \in Nat /\ x \in Nat
    BY <1>3
  <2>2. x \in S => x <= e
    BY <1>2
  <2>3. x \notin S
    BY <2>1, <2>2
  <2> QED
    BY <2>1, <2>3 DEF S
<1>5. \E y \in 0..d : (y = 0 \/ y \notin D) /\ \A x \in (y + 1)..d : x \in D
  BY <1>3, <1>4
<1> QED
  BY <1>5 DEF Gap

LEMMA RunExists ==
  ASSUME NEW D
  PROVE  \E f : RunOf(f, D)
<1> DEFINE f == [d \in 0..MaxDay |-> d - Gap(d, D)]
<1>1. MaxDay \in Nat
  BY RewardsAssumption
<1>2. ASSUME NEW d \in 0..MaxDay
      PROVE  d - Gap(d, D) = IF d = 0 \/ d \notin D THEN 0 ELSE f[d - 1] + 1
  <2>1. d \in Nat
    BY <1>1
  <2>2. /\ Gap(d, D) \in 0..d /\ (Gap(d, D) = 0 \/ Gap(d, D) \notin D)
        /\ \A x \in (Gap(d, D) + 1)..d : x \in D
    BY <2>1, GapFacts
  <2>3. CASE d = 0
    BY <2>2, <2>3
  <2>4. CASE d # 0 /\ d \notin D
    <3>1. d \notin (Gap(d, D) + 1)..d
      BY <2>2, <2>4
    <3>2. Gap(d, D) = d
      BY <2>1, <2>2, <3>1
    <3> QED
      BY <2>1, <2>4, <3>2
  <2>5. CASE d # 0 /\ d \in D
    <3> DEFINE c == d - 1
               g == Gap(d, D)
               h == Gap(c, D)
    <3>1. c \in Nat /\ c \in 0..MaxDay /\ c + 1 = d
      BY <1>1, <2>1, <2>5
    <3>2. h \in 0..c /\ (h = 0 \/ h \notin D) /\ \A x \in (h + 1)..c : x \in D
      BY <3>1, GapFacts
    <3>3. g \in 0..d /\ (g = 0 \/ g \notin D) /\ \A x \in (g + 1)..d : x \in D
      BY <2>2
    <3>4. f[d - 1] = c - h
      BY <3>1
    <3> HIDE DEF c, g, h, f
    <3>5. g # d /\ g \in 0..c
      BY <2>1, <2>5, <3>1, <3>3
    <3>6. ~(g < h)
      <4>1. ASSUME g < h PROVE FALSE
        <5>1. h \in (g + 1)..d /\ h # 0
          BY <2>1, <3>1, <3>2, <3>3, <4>1
        <5> QED
          BY <3>2, <3>3, <5>1
      <4> QED
        BY <4>1
    <3>7. ~(h < g)
      <4>1. ASSUME h < g PROVE FALSE
        <5>1. g \in (h + 1)..c /\ g # 0
          BY <2>1, <3>1, <3>2, <3>5, <4>1
        <5> QED
          BY <3>2, <3>3, <5>1
      <4> QED
        BY <4>1
    <3>8. g = h
      BY <3>1, <3>2, <3>3, <3>6, <3>7
    <3>9. d - g = (c - h) + 1
      BY <3>1, <3>2, <3>8
    <3>10. d - Gap(d, D) = f[d - 1] + 1
      BY <3>4, <3>9 DEF g
    <3> QED
      BY <2>5, <3>10
  <2> QED
    BY <2>3, <2>4, <2>5
<1> HIDE DEF f
<1>3. f = [d \in 0..MaxDay |-> IF d = 0 \/ d \notin D THEN 0 ELSE f[d - 1] + 1]
  BY <1>2 DEF f
<1> QED
  BY <1>3 DEF RunOf

\* What the run at a date is: that many dates end there, and no more.
RunIs(n, d, D) ==
  /\ n \in 0..d /\ (d - n + 1)..d \subseteq D
  /\ \A x \in 1..d : x..d \subseteq D => d - x + 1 <= n

LEMMA RunFacts ==
  ASSUME NEW D, NEW f, RunOf(f, D), NEW d \in 0..MaxDay
  PROVE  RunIs(f[d], d, D)
<1> DEFINE S == {x \in 0..MaxDay : ~RunIs(f[x], x, D)}
<1>1. MaxDay \in Nat
  BY RewardsAssumption
<1>2. S \in SUBSET Nat
  BY <1>1
<1>3. \A x \in 0..MaxDay : f[x] = IF x = 0 \/ x \notin D THEN 0 ELSE f[x - 1] + 1
  BY DEF RunOf
<1>4. ASSUME S # {} PROVE FALSE
  <2>1. PICK x \in S : \A y \in S : x <= y
    BY <1>2, <1>4, LeastExists
  <2>2. x \in 0..MaxDay /\ x \in Nat /\ ~RunIs(f[x], x, D)
    BY <1>1, <2>1
  <2>3. CASE x = 0
    <3>1. f[x] = 0
      BY <1>3, <2>2, <2>3
    <3> QED
      BY <2>2, <2>3, <3>1 DEF RunIs
  <2>4. CASE x # 0 /\ x \notin D
    <3>1. f[x] = 0
      BY <1>3, <2>2, <2>4
    <3>2. \A y \in 1..x : x \in y..x
      BY <2>2
    <3>3. (x - 0 + 1)..x \subseteq D
      BY <2>2
    <3> QED
      BY <2>2, <2>4, <3>1, <3>2, <3>3 DEF RunIs
  <2>5. CASE x # 0 /\ x \in D
    <3> DEFINE c == x - 1
    <3>1. c \in Nat /\ c \in 0..MaxDay /\ c + 1 = x /\ f[x] = f[c] + 1
      BY <1>1, <1>3, <2>2, <2>5
    <3>2. c \notin S
      BY <2>1, <2>2, <3>1
    <3>3. RunIs(f[c], c, D)
      BY <3>1, <3>2
    <3> HIDE DEF c, S
    <3>4. f[c] \in 0..c /\ f[x] \in 0..x
      BY <3>1, <3>3 DEF RunIs
    <3>5. (x - f[x] + 1)..x \subseteq D
      <4>1. ASSUME NEW y \in (x - f[x] + 1)..x PROVE y \in D
        <5>1. y = x \/ y \in (c - f[c] + 1)..c
          BY <2>2, <3>1, <3>4
        <5> QED
          BY <2>5, <3>3, <5>1 DEF RunIs
      <4> QED
        BY <4>1
    <3>6. ASSUME NEW y \in 1..x, y..x \subseteq D PROVE x - y + 1 <= f[x]
      <4>1. CASE y = x
        BY <2>2, <3>1, <3>4, <4>1
      <4>2. CASE y # x
        <5>1. y \in 1..c /\ y..c \subseteq y..x
          BY <2>2, <3>1, <4>2
        <5>2. c - y + 1 <= f[c]
          BY <3>3, <3>6, <5>1 DEF RunIs
        <5> QED
          BY <3>1, <3>4, <5>1, <5>2
      <4> QED
        BY <4>1, <4>2
    <3>7. RunIs(f[x], x, D)
      BY <3>4, <3>5, <3>6 DEF RunIs
    <3> QED
      BY <2>2, <3>7
  <2> QED
    BY <2>3, <2>4, <2>5
<1> QED
  BY <1>4

\* The longest run: so many consecutive dates, and no more.
LEMMA LongestRunFacts ==
  ASSUME NEW D
  PROVE  /\ LongestRun(D) \in Nat
         /\ \E d \in 0..MaxDay :
              LongestRun(D) <= d /\ (d - LongestRun(D) + 1)..d \subseteq D
         /\ \A x, y \in Days : x..y \subseteq D => Cardinality(x..y) <= LongestRun(D)
<1> DEFINE run == CHOOSE f : f = [d \in 0..MaxDay |-> IF d = 0 \/ d \notin D THEN 0 ELSE f[d - 1] + 1]
<1>1. RunOf(run, D)
  BY RunExists DEF RunOf
<1>2. LongestRun(D) = Max({run[d] : d \in 0..MaxDay})
  BY DEF LongestRun
<1> HIDE DEF run
<1>3. MaxDay \in Nat
  BY RewardsAssumption
<1>4. \A d \in 0..MaxDay : RunIs(run[d], d, D)
  BY <1>1, RunFacts
<1> DEFINE S == {run[d] : d \in 0..MaxDay}
<1>5. S \in SUBSET 0..MaxDay /\ S # {}
  <2>1. ASSUME NEW d \in 0..MaxDay PROVE run[d] \in 0..MaxDay
    <3>1. run[d] \in 0..d
      BY <1>4 DEF RunIs
    <3> QED
      BY <1>3, <3>1
  <2>2. run[0] \in S
    BY <1>3
  <2> QED
    BY <2>1, <2>2
<1>6. \A d \in 0..MaxDay : run[d] \in S
  OBVIOUS
<1>7. \A n \in S : \E d \in 0..MaxDay : n = run[d]
  OBVIOUS
<1>8. LongestRun(D) = Max(S)
  BY <1>2
<1> HIDE DEF S
<1>9. PICK m \in S : \A y \in S : y <= m
  BY <1>3, <1>5, GreatestExists
<1>10. S \in SUBSET Nat
  BY <1>3, <1>5
<1>11. LongestRun(D) = m
  BY <1>8, <1>9, <1>10, MaxIs
<1>12. PICK d \in 0..MaxDay : m = run[d]
  BY <1>7
<1>13. m \in Nat /\ m <= d /\ (d - m + 1)..d \subseteq D
  BY <1>4, <1>12 DEF RunIs
<1>14. ASSUME NEW x \in Days, NEW y \in Days, x..y \subseteq D
       PROVE  Cardinality(x..y) <= m
  <2>1. x \in Nat /\ y \in 0..MaxDay /\ x >= 1 /\ y \in Nat
    BY <1>3 DEF Days
  <2>2. Cardinality(x..y) = IF x > y THEN 0 ELSE y - x + 1
    BY <2>1, FS_Interval
  <2>3. CASE x > y
    BY <1>13, <2>2, <2>3
  <2>4. CASE ~(x > y)
    <3>1. x \in 1..y
      BY <2>1, <2>4
    <3>2. y - x + 1 <= run[y]
      BY <1>4, <1>14, <2>1, <3>1 DEF RunIs
    <3>3. run[y] \in Nat /\ run[y] <= m
      BY <1>6, <1>9, <1>10, <2>1
    <3> QED
      BY <1>13, <2>1, <2>2, <2>4, <3>2, <3>3
  <2> QED
    BY <2>3, <2>4
<1> QED
  BY <1>11, <1>12, <1>13, <1>14

LEMMA LongestRunGrows ==
  ASSUME NEW D, NEW E, D \subseteq E
  PROVE  LongestRun(D) <= LongestRun(E)
<1> DEFINE m == LongestRun(D)
<1>1. m \in Nat /\ LongestRun(E) \in Nat
  BY LongestRunFacts
<1>2. PICK d \in 0..MaxDay : m <= d /\ (d - m + 1)..d \subseteq D
  BY LongestRunFacts
<1>3. MaxDay \in Nat
  BY RewardsAssumption
<1> HIDE DEF m
<1>4. CASE m = 0
  BY <1>1, <1>4 DEF m
<1>5. CASE m # 0
  <2> DEFINE x == d - m + 1
  <2>1. x \in Days /\ d \in Days /\ ~(x > d) /\ d - x + 1 = m /\ x \in Int /\ d \in Int
    BY <1>1, <1>2, <1>3, <1>5 DEF Days
  <2>2. x..d \subseteq E
    BY <1>2
  <2> HIDE DEF x
  <2>3. Cardinality(x..d) = m
    BY <2>1, FS_Interval
  <2>4. Cardinality(x..d) <= LongestRun(E)
    BY <2>1, <2>2, LongestRunFacts
  <2> QED
    BY <2>3, <2>4 DEF m
<1> QED
  BY <1>4, <1>5

\* The longest run as ProfileSettled states it.
LEMMA LongestRunIs ==
  ASSUME NEW D
  PROVE  LongestRun(D) =
           Max({0} \cup {Cardinality(x[1]..x[2]) : x \in {y \in Days \X Days : y[1]..y[2] \subseteq D}})
<1> DEFINE m == LongestRun(D)
           P == {y \in Days \X Days : y[1]..y[2] \subseteq D}
           S == {0} \cup {Cardinality(x[1]..x[2]) : x \in P}
<1>1. m \in Nat /\ \A x, y \in Days : x..y \subseteq D => Cardinality(x..y) <= m
  BY LongestRunFacts
<1>2. PICK d \in 0..MaxDay : m <= d /\ (d - m + 1)..d \subseteq D
  BY LongestRunFacts
<1>3. MaxDay \in Nat /\ \A x \in Days : x \in Int
  BY RewardsAssumption DEF Days
<1> HIDE DEF m
<1>4. ASSUME NEW n \in S PROVE n \in Nat /\ n <= m
  <2>1. CASE n = 0
    BY <1>1, <2>1
  <2>2. CASE n # 0
    <3>1. PICK x \in P : n = Cardinality(x[1]..x[2])
      BY <2>2
    <3>2. x[1] \in Days /\ x[2] \in Days /\ x[1]..x[2] \subseteq D
      OBVIOUS
    <3>3. IsFiniteSet(x[1]..x[2])
      BY <1>3, <3>2, FS_Interval
    <3>4. n \in Nat
      BY <3>1, <3>3, FS_CardinalityType
    <3> QED
      BY <1>1, <3>1, <3>2, <3>4
  <2> QED
    BY <2>1, <2>2
<1>5. m \in S
  <2>1. CASE m = 0
    BY <2>1
  <2>2. CASE m # 0
    <3> DEFINE x == d - m + 1
    <3>1. x \in Days /\ d \in Days /\ ~(x > d) /\ d - x + 1 = m /\ x \in Int /\ d \in Int
      BY <1>1, <1>2, <1>3, <2>2 DEF Days
    <3>2. x..d \subseteq D
      BY <1>2
    <3> HIDE DEF x
    <3>3. Cardinality(x..d) = m
      BY <3>1, FS_Interval
    <3>4. <<x, d>> \in P /\ <<x, d>>[1] = x /\ <<x, d>>[2] = d
      BY <3>1, <3>2
    <3>5. Cardinality(<<x, d>>[1]..<<x, d>>[2]) \in S
      BY <3>4
    <3> QED
      BY <3>3, <3>4, <3>5
  <2> QED
    BY <2>1, <2>2
<1> HIDE DEF S
<1>6. S \in SUBSET Nat /\ \A y \in S : y <= m
  BY <1>4
<1>7. Max(S) = m
  BY <1>5, <1>6, MaxIs
<1> QED
  BY <1>7 DEF S, m

LEMMA NoRun == LongestRun({}) = 0
<1> DEFINE m == LongestRun({})
<1>1. m \in Nat
  BY LongestRunFacts
<1>2. PICK d \in 0..MaxDay : m <= d /\ (d - m + 1)..d \subseteq {}
  BY LongestRunFacts
<1> HIDE DEF m
<1>3. m # 0 => d \in (d - m + 1)..d
  BY <1>1, <1>2
<1>4. m = 0
  BY <1>2, <1>3
<1> QED
  BY <1>4 DEF m

\* The rank of some XP is the last one whose threshold the XP reaches.
LEMMA RankFacts ==
  ASSUME NEW x \in Nat
  PROVE  /\ Rank(x) \in 1..Len(Thresholds) /\ Thresholds[Rank(x)] <= x
         /\ \A i \in 1..Len(Thresholds) : Thresholds[i] <= x => i <= Rank(x)
<1> DEFINE n == Len(Thresholds)
           S == {i \in 1..n : Thresholds[i] <= x}
<1>1. n \in Nat /\ n > 0 /\ Thresholds[1] = 0
  BY RewardsAssumption, LenProperties
<1>2. S \in SUBSET 0..n /\ 1 \in S /\ S \in SUBSET Nat
  BY <1>1
<1>3. Rank(x) = Max(S)
  BY DEF Rank
<1>4. \A i \in 1..n : Thresholds[i] <= x => i \in S
  OBVIOUS
<1>5. \A i \in S : i \in 1..n /\ Thresholds[i] <= x
  OBVIOUS
<1> HIDE DEF S, n
<1>6. PICK m \in S : \A y \in S : y <= m
  BY <1>1, <1>2, GreatestExists
<1>7. Rank(x) = m
  BY <1>2, <1>3, <1>6, MaxIs
<1> QED
  BY <1>4, <1>5, <1>6, <1>7 DEF n

LEMMA ThresholdType == \A i \in 1..Len(Thresholds) : Thresholds[i] \in Nat
BY RewardsAssumption, ElementOfSeq, LenProperties

\* A rank that more XP amounts to and less did not begins in between.
LEMMA RankRises ==
  ASSUME NEW x \in Nat, NEW y \in Nat, x <= y
  PROVE  /\ Rank(x) <= Rank(y)
         /\ Rank(x) # Rank(y) => x < Thresholds[Rank(y)]
<1> DEFINE r == Rank(x)
           q == Rank(y)
           T(i) == Thresholds[i]
<1>1. /\ r \in 1..Len(Thresholds) /\ T(r) <= x
      /\ \A i \in 1..Len(Thresholds) : T(i) <= x => i <= r
  BY RankFacts
<1>2. /\ q \in 1..Len(Thresholds) /\ T(q) <= y
      /\ \A i \in 1..Len(Thresholds) : T(i) <= y => i <= q
  BY RankFacts
<1>3. T(r) \in Nat /\ T(q) \in Nat /\ Len(Thresholds) \in Nat
  BY <1>1, <1>2, ThresholdType, RewardsAssumption, LenProperties
<1> HIDE DEF r, q, T
<1>4. T(r) <= y
  BY <1>1, <1>3
<1>5. r <= q
  BY <1>1, <1>2, <1>4
<1>6. ASSUME r # q PROVE x < T(q)
  <2>1. ~(T(q) <= x)
    BY <1>1, <1>2, <1>3, <1>5, <1>6
  <2> QED
    BY <1>3, <2>1
<1> QED
  BY <1>5, <1>6 DEF r, q, T

\* What falls between the beginning of a rank and an XP of that rank is of that rank.
LEMMA RankBetween ==
  ASSUME NEW x \in Nat, NEW y \in Nat, y <= x, Thresholds[Rank(x)] <= y
  PROVE  Rank(y) = Rank(x)
<1>1. Rank(x) \in 1..Len(Thresholds) /\ Rank(y) \in 1..Len(Thresholds) /\ Rank(x) <= Rank(y)
  BY RankFacts
<1>2. Rank(y) <= Rank(x)
  BY RankRises
<1>3. Len(Thresholds) \in Nat
  BY RewardsAssumption, LenProperties
<1> QED
  BY <1>1, <1>2, <1>3

LEMMA RankBelow ==
  ASSUME NEW x \in Nat, NEW y \in Nat, y < Thresholds[Rank(x)]
  PROVE  Rank(y) # Rank(x)
<1>1. Rank(y) \in 1..Len(Thresholds) /\ Thresholds[Rank(y)] <= y
  BY RankFacts
<1>2. Thresholds[Rank(y)] \in Nat
  BY <1>1, ThresholdType
<1> QED
  BY <1>1, <1>2

\* The points of XP that entries of the ledger are worth.
Points(l) == UNION {{r} \X (1..Xp(r)) : r \in l}

LEMMA XpType ==
  ASSUME NEW r \in References
  PROVE  Xp(r) \in Nat
<1>1. CASE \E a \in Activities : r = Activity(a)
  BY <1>1, RewardsAssumption DEF Activity, Xp
<1>2. CASE \E b \in Badges : r = Badge(b)
  BY <1>2, RewardsAssumption DEF Badge, Xp
<1>3. CASE \E d \in Days : r = Day(d)
  BY <1>3 DEF Day, Xp
<1> QED
  BY <1>1, <1>2, <1>3 DEF References

LEMMA PointsFinite ==
  ASSUME NEW l, l \subseteq References, IsFiniteSet(l)
  PROVE  IsFiniteSet(Points(l)) /\ XpOf(l) \in Nat /\ XpOf(l) = Cardinality(Points(l))
<1> DEFINE block(r) == {r} \X (1..Xp(r))
           f == [r \in l |-> block(r)]
           T == {block(r) : r \in l}
<1>1. f \in [l -> T] /\ \A t \in T : \E r \in l : f[r] = t
  OBVIOUS
<1>2. f \in Surjection(l, T)
  BY <1>1 DEF Surjection
<1>3. IsFiniteSet(T)
  BY <1>2, FS_Surjection
<1>4. ASSUME NEW t \in T PROVE IsFiniteSet(t)
  <2>1. PICK r \in l : t = block(r)
    OBVIOUS
  <2>2. IsFiniteSet({r}) /\ IsFiniteSet(1..Xp(r))
    <3>1. r \in References
      OBVIOUS
    <3>2. Xp(r) \in Int
      BY <3>1, XpType
    <3>3. IsFiniteSet(1..Xp(r))
      BY <3>2, FS_Interval
    <3> QED
      BY <3>3, FS_Singleton
  <2>3. IsFiniteSet({r} \X (1..Xp(r)))
    BY <2>2, FS_Product
  <2> QED
    BY <2>1, <2>3
<1>5. IsFiniteSet(UNION T)
  <2> HIDE DEF T
  <2> QED
    BY <1>3, <1>4, FS_UNION
<1>6. IsFiniteSet(Points(l))
  BY <1>5 DEF Points
<1>7. XpOf(l) = Cardinality(Points(l))
  BY DEF XpOf, Points
<1> QED
  BY <1>6, <1>7, FS_CardinalityType

LEMMA XpGrows ==
  ASSUME NEW l, NEW m, l \subseteq m, m \subseteq References, IsFiniteSet(m)
  PROVE  XpOf(l) \in Nat /\ XpOf(m) \in Nat /\ XpOf(l) <= XpOf(m)
<1>1. l \subseteq References /\ IsFiniteSet(l)
  BY FS_Subset
<1>2. IsFiniteSet(Points(m)) /\ XpOf(m) \in Nat /\ XpOf(m) = Cardinality(Points(m))
  BY PointsFinite
<1>3. XpOf(l) \in Nat /\ XpOf(l) = Cardinality(Points(l))
  BY <1>1, PointsFinite
<1>4. Points(l) \in SUBSET Points(m)
  BY DEF Points
<1>5. Cardinality(Points(l)) <= Cardinality(Points(m))
  BY <1>2, <1>4, FS_Subset
<1> QED
  BY <1>2, <1>3, <1>5

LEMMA NoXp ==
  ASSUME NEW l, NEW r, r \in l \/ Xp(r) = 0
  PROVE  XpOf(l \cup {r}) = XpOf(l)
<1>1. CASE r \in l
  <2>1. l \cup {r} = l
    BY <1>1
  <2> QED
    BY <2>1
<1>2. CASE Xp(r) = 0
  <2>1. {r} \X (1..Xp(r)) = {}
    BY <1>2
  <2>2. Points(l \cup {r}) = Points(l) \cup ({r} \X (1..Xp(r)))
    BY DEF Points
  <2>3. Points(l \cup {r}) = Points(l)
    BY <2>1, <2>2
  <2> QED
    BY <2>3 DEF XpOf, Points
<1> QED
  BY <1>1, <1>2

-----------------------------------------------------------------------------
(* What the calls of a script lead to.                                     *)

Evaluations == {"badgesLive", "badgesQuiet"}
Hows == {"live", "quiet"}
Paying == Evaluations \cup Hows \cup {"medal"}
Watched == Paying \cup {"create", "day", "migrate", "inspect", "repaired"}

HasCall(s, c) == \E i \in DOMAIN s : s[i] = c
HasKind(s, k) == \E i \in DOMAIN s : s[i][1] = k
HeadIs(s, K) == s # <<>> /\ Head(s)[1] \in K

\* A recalculation begins at i, and the call after it, of a kind in K, reads its answer.
Rereads(s, i, K) == i \in DOMAIN s /\ i + 4 \in DOMAIN s /\ s[i][1] = "totals" /\ s[i + 4][1] \in K
WillRead(s, K) == \E i \in DOMAIN s : Rereads(s, i, K)
\* The same, once the recalculation has read the totals.
InRead(s, K) ==
  \/ HeadIs(s, {"dates"}) /\ 4 \in DOMAIN s /\ s[4][1] \in K
  \/ HeadIs(s, {"ownerships"}) /\ 3 \in DOMAIN s /\ s[3][1] \in K
  \/ HeadIs(s, {"project", "enroll"}) /\ 2 \in DOMAIN s /\ s[2][1] \in K

\* The order of calls that nothing comes between, and the evaluation that what is booked
\* leads to.
SoundAt(s, i) ==
  /\ s[i][1] = "totals" => i + 1 \in DOMAIN s /\ s[i + 1][1] = "dates"
  /\ s[i][1] = "dates" => i + 1 \in DOMAIN s /\ s[i + 1][1] = "ownerships"
  /\ s[i][1] = "ownerships" => i + 1 \in DOMAIN s /\ s[i + 1][1] = "project"
  /\ s[i][1] = "restore" =>
       i + 1 \in DOMAIN s /\ (s[i + 1][1] = "repaired" \/ Rereads(s, i + 1, Evaluations))
  /\ s[i][1] \in Hows => i + 1 \in DOMAIN s /\ s[i + 1] = <<"medal", s[i][2]>>
  /\ s[i][1] = "medal" => i + 1 \in DOMAIN s /\ s[i + 1] = <<"tell", s[i][2]>>
  /\ s[i][1] = "event" => i + 1 \in DOMAIN s /\ s[i + 1] = <<"notify", s[i][2]>>
  /\ s[i][1] \in {"create", "day"} => \E j \in DOMAIN s : j > i /\ Rereads(s, j, Evaluations)
Sound(s) == \A i \in DOMAIN s : SoundAt(s, i)

\* After what pays badges, the profile is projected again.
PaidAt(s, i) == s[i][1] \in Paying => \E j \in DOMAIN s : j > i /\ s[j][1] = "totals"
PaidLater(s) == \A i \in DOMAIN s : PaidAt(s, i)

\* After what books XP, an award compares ranks.
RankAt(s, i) == s[i][1] \in Watched => \E j \in DOMAIN s : j > i /\ Rereads(s, j, {"rank"})
RankLater(s) == \A i \in DOMAIN s : RankAt(s, i)

\* From i on, s is found again in u, k further on.
Suffix(s, i, u, k) == \A j \in DOMAIN s : j >= i => j + k \in DOMAIN u /\ u[j + k] = s[j]

LEMMA RereadsMoves ==
  ASSUME NEW s, NEW u, NEW k \in Int, NEW i, DOMAIN s \subseteq Int, Suffix(s, i, u, k), i \in Int,
         NEW j, j >= i, NEW K, Rereads(s, j, K)
  PROVE  j \in DOMAIN s /\ j + k \in DOMAIN u /\ Rereads(u, j + k, K)
<1>1. j \in DOMAIN s /\ j + 4 \in DOMAIN s /\ s[j][1] = "totals" /\ s[j + 4][1] \in K /\ j \in Int
  BY DEF Rereads
<1>2. j + 4 >= i /\ (j + 4) + k = (j + k) + 4
  BY <1>1
<1>3. j + k \in DOMAIN u /\ u[j + k] = s[j]
  BY <1>1 DEF Suffix
<1>4. (j + k) + 4 \in DOMAIN u /\ u[(j + k) + 4] = s[j + 4]
  BY <1>1, <1>2 DEF Suffix
<1> QED
  BY <1>1, <1>3, <1>4 DEF Rereads

LEMMA SoundMoves ==
  ASSUME NEW s, NEW u, NEW k \in Int, NEW i \in DOMAIN s, DOMAIN s \subseteq Int,
         Suffix(s, i, u, k), SoundAt(s, i)
  PROVE  SoundAt(u, i + k)
<1>1. i \in Int /\ u[i + k] = s[i]
  BY DEF Suffix
<1>2. i + 1 \in DOMAIN s => (i + k) + 1 \in DOMAIN u /\ u[(i + k) + 1] = s[i + 1]
  <2>1. i + 1 >= i /\ (i + 1) + k = (i + k) + 1
    BY <1>1
  <2> QED
    BY <2>1 DEF Suffix
<1>3. Rereads(s, i + 1, Evaluations) => Rereads(u, (i + k) + 1, Evaluations)
  <2>1. i + 1 >= i /\ (i + 1) + k = (i + k) + 1
    BY <1>1
  <2> QED
    BY <1>1, <2>1, RereadsMoves
<1>4. (\E j \in DOMAIN s : j > i /\ Rereads(s, j, Evaluations)) =>
        \E j \in DOMAIN u : j > i + k /\ Rereads(u, j, Evaluations)
  <2>1. ASSUME NEW j \in DOMAIN s, j > i, Rereads(s, j, Evaluations)
        PROVE  j + k \in DOMAIN u /\ j + k > i + k /\ Rereads(u, j + k, Evaluations)
    <3>1. j \in Int /\ j >= i /\ j + k > i + k
      BY <1>1, <2>1
    <3> QED
      BY <1>1, <2>1, <3>1, RereadsMoves
  <2> QED
    BY <2>1
<1>5. /\ s[i][1] = "totals" => i + 1 \in DOMAIN s /\ s[i + 1][1] = "dates"
      /\ s[i][1] = "dates" => i + 1 \in DOMAIN s /\ s[i + 1][1] = "ownerships"
      /\ s[i][1] = "ownerships" => i + 1 \in DOMAIN s /\ s[i + 1][1] = "project"
      /\ s[i][1] = "restore" =>
           i + 1 \in DOMAIN s /\ (s[i + 1][1] = "repaired" \/ Rereads(s, i + 1, Evaluations))
      /\ s[i][1] \in Hows => i + 1 \in DOMAIN s /\ s[i + 1] = <<"medal", s[i][2]>>
      /\ s[i][1] = "medal" => i + 1 \in DOMAIN s /\ s[i + 1] = <<"tell", s[i][2]>>
      /\ s[i][1] = "event" => i + 1 \in DOMAIN s /\ s[i + 1] = <<"notify", s[i][2]>>
      /\ s[i][1] \in {"create", "day"} => \E j \in DOMAIN s : j > i /\ Rereads(s, j, Evaluations)
  BY DEF SoundAt
<1> QED
  BY <1>1, <1>2, <1>3, <1>4, <1>5, Zenon DEF SoundAt

LEMMA PaidMoves ==
  ASSUME NEW s, NEW u, NEW k \in Int, NEW i \in DOMAIN s, DOMAIN s \subseteq Int,
         Suffix(s, i, u, k), PaidAt(s, i)
  PROVE  PaidAt(u, i + k)
<1>1. i \in Int /\ u[i + k] = s[i]
  BY DEF Suffix
<1>2. ASSUME NEW j \in DOMAIN s, j > i, s[j][1] = "totals"
      PROVE  j + k \in DOMAIN u /\ j + k > i + k /\ u[j + k][1] = "totals"
  <2>1. j \in Int /\ j >= i /\ j + k > i + k
    BY <1>1, <1>2
  <2> QED
    BY <1>2, <2>1 DEF Suffix
<1> QED
  BY <1>1, <1>2, Zenon DEF PaidAt

LEMMA RankMoves ==
  ASSUME NEW s, NEW u, NEW k \in Int, NEW i \in DOMAIN s, DOMAIN s \subseteq Int,
         Suffix(s, i, u, k), RankAt(s, i)
  PROVE  RankAt(u, i + k)
<1>1. i \in Int /\ u[i + k] = s[i]
  BY DEF Suffix
<1>2. ASSUME NEW j \in DOMAIN s, j > i, Rereads(s, j, {"rank"})
      PROVE  j + k \in DOMAIN u /\ j + k > i + k /\ Rereads(u, j + k, {"rank"})
  <2>1. j \in Int /\ j >= i /\ j + k > i + k
    BY <1>1, <1>2
  <2> QED
    BY <1>1, <1>2, <2>1, RereadsMoves
<1> QED
  BY <1>1, <1>2, Zenon DEF RankAt

\* The first call of t returned and put s in front of the rest.
Pushed(s, t) == s \o Tail(t)

LEMMA PushFacts ==
  ASSUME NEW s, NEW t, IsScript(s), IsScript(t), t # <<>>
  PROVE  /\ IsScript(Pushed(s, t)) /\ Len(s) - 1 \in Int /\ Len(s) \in Nat
         /\ DOMAIN s \subseteq Int /\ DOMAIN t \subseteq Int /\ DOMAIN Pushed(s, t) \subseteq Int
         /\ Suffix(s, 1, Pushed(s, t), 0) /\ Suffix(t, 2, Pushed(s, t), Len(s) - 1)
         /\ \A i \in DOMAIN s : i >= 1 /\ i <= Len(s)
         /\ \A j \in DOMAIN t : j >= 1
         /\ \A i \in DOMAIN Pushed(s, t) :
              i \in DOMAIN s \/ \E j \in DOMAIN t : j >= 2 /\ i = j + (Len(s) - 1)
         /\ 1 \in DOMAIN t /\ Head(t) = t[1]
<1> DEFINE r == Tail(t)
           u == s \o r
           n == Len(s)
           m == Len(t)
<1>1. /\ IsScript(r) /\ m \in Nat \ {0} /\ Len(r) = m - 1
      /\ Head(t) = t[1] /\ \A i \in 1..(m - 1) : r[i] = t[i + 1]
  BY RestOfScript
<1>2. n \in Nat /\ DOMAIN s = 1..n /\ DOMAIN t = 1..m
  BY ScriptFacts
<1>3. /\ IsScript(u) /\ Len(u) = n + (m - 1) /\ \A i \in 1..n : u[i] = s[i]
      /\ \A i \in 1..(m - 1) : u[i + n] = r[i]
  BY <1>1, JoinScripts
<1>4. DOMAIN u = 1..(n + (m - 1))
  BY <1>3, ScriptFacts
<1> HIDE DEF r, u, n, m
<1>5. Suffix(s, 1, u, 0)
  <2>1. ASSUME NEW j \in DOMAIN s PROVE j + 0 \in DOMAIN u /\ u[j + 0] = s[j]
    <3>1. j \in 1..n /\ j + 0 = j /\ j \in 1..(n + (m - 1))
      BY <1>1, <1>2
    <3> QED
      BY <1>3, <1>4, <3>1
  <2> QED
    BY <2>1 DEF Suffix
<1>6. Suffix(t, 2, u, n - 1)
  <2>1. ASSUME NEW j \in DOMAIN t, j >= 2 PROVE j + (n - 1) \in DOMAIN u /\ u[j + (n - 1)] = t[j]
    <3>1. j - 1 \in 1..(m - 1) /\ (j - 1) + 1 = j /\ (j - 1) + n = j + (n - 1)
      BY <1>1, <1>2, <2>1
    <3>2. j + (n - 1) \in 1..(n + (m - 1))
      BY <1>1, <1>2, <2>1
    <3> QED
      BY <1>1, <1>3, <1>4, <3>1, <3>2
  <2> QED
    BY <2>1 DEF Suffix
<1>7. ASSUME NEW i \in DOMAIN u, i \notin DOMAIN s
      PROVE  \E j \in DOMAIN t : j >= 2 /\ i = j + (n - 1)
  <2> DEFINE j == i - (n - 1)
  <2>1. j \in 1..m /\ j >= 2 /\ i = j + (n - 1)
    BY <1>1, <1>2, <1>4, <1>7
  <2> QED
    BY <1>2, <2>1
<1>8. Pushed(s, t) = u
  BY DEF Pushed, u, r
<1>9. /\ n - 1 \in Int /\ DOMAIN s \subseteq Int /\ DOMAIN t \subseteq Int /\ DOMAIN u \subseteq Int
      /\ \A i \in DOMAIN s : i >= 1 /\ i <= n
      /\ \A j \in DOMAIN t : j >= 1
      /\ 1 \in DOMAIN t
  BY <1>1, <1>2, <1>4
<1> QED
  BY <1>1, <1>2, <1>3, <1>5, <1>6, <1>7, <1>8, <1>9 DEF n

LEMMA SoundPush ==
  ASSUME NEW s, NEW t, IsScript(s), IsScript(t), t # <<>>, Sound(s), Sound(t)
  PROVE  Sound(Pushed(s, t))
<1> DEFINE u == Pushed(s, t)
           k == Len(s) - 1
<1>1. /\ k \in Int /\ DOMAIN s \subseteq Int /\ DOMAIN t \subseteq Int
      /\ Suffix(s, 1, u, 0) /\ Suffix(t, 2, u, k) /\ \A i \in DOMAIN s : i >= 1
      /\ \A i \in DOMAIN u : i \in DOMAIN s \/ \E j \in DOMAIN t : j >= 2 /\ i = j + k
  BY PushFacts
<1> HIDE DEF u, k
<1>2. ASSUME NEW i \in DOMAIN s PROVE SoundAt(u, i)
  <2>1. SoundAt(s, i) /\ i \in Int /\ i >= 1 /\ i + 0 = i
    BY <1>1 DEF Sound
  <2>2. Suffix(s, i, u, 0)
    BY <1>1, <2>1 DEF Suffix
  <2> QED
    BY <1>1, <2>1, <2>2, SoundMoves
<1>3. ASSUME NEW j \in DOMAIN t, j >= 2 PROVE SoundAt(u, j + k)
  <2>1. SoundAt(t, j) /\ j \in Int
    BY <1>1 DEF Sound
  <2>2. Suffix(t, j, u, k)
    BY <1>1, <1>3, <2>1 DEF Suffix
  <2> QED
    BY <1>1, <2>1, <2>2, SoundMoves
<1>4. Sound(u)
  BY <1>1, <1>2, <1>3 DEF Sound
<1> QED
  BY <1>4 DEF u

LEMMA PaidPush ==
  ASSUME NEW s, NEW t, IsScript(s), IsScript(t), t # <<>>, PaidLater(t),
         PaidLater(s) \/ Head(t)[1] \in Paying
  PROVE  PaidLater(Pushed(s, t))
<1> DEFINE u == Pushed(s, t)
           k == Len(s) - 1
<1>1. /\ k \in Int /\ DOMAIN s \subseteq Int /\ DOMAIN t \subseteq Int
      /\ Suffix(s, 1, u, 0) /\ Suffix(t, 2, u, k) /\ \A i \in DOMAIN s : i >= 1 /\ i <= k + 1
      /\ \A i \in DOMAIN u : i \in DOMAIN s \/ \E j \in DOMAIN t : j >= 2 /\ i = j + k
      /\ 1 \in DOMAIN t /\ Head(t) = t[1]
  BY PushFacts
<1> HIDE DEF u, k
<1>2. ASSUME NEW i \in DOMAIN s PROVE PaidAt(u, i)
  <2>1. i \in Int /\ i >= 1 /\ i + 0 = i /\ i <= k + 1
    BY <1>1
  <2>2. Suffix(s, i, u, 0)
    BY <1>1, <2>1 DEF Suffix
  <2>3. CASE PaidLater(s)
    <3>1. PaidAt(s, i)
      BY <2>3 DEF PaidLater
    <3> QED
      BY <1>1, <2>1, <2>2, <3>1, PaidMoves
  <2>4. CASE Head(t)[1] \in Paying
    <3>1. PICK j \in DOMAIN t : j > 1 /\ t[j][1] = "totals"
      BY <1>1, <2>4 DEF PaidLater, PaidAt
    <3>2. j \in Int /\ j >= 2 /\ j + k > i
      BY <1>1, <2>1, <3>1
    <3>3. j + k \in DOMAIN u /\ u[j + k] = t[j]
      BY <1>1, <3>2 DEF Suffix
    <3> QED
      BY <3>1, <3>2, <3>3 DEF PaidAt
  <2> QED
    BY <2>3, <2>4
<1>3. ASSUME NEW j \in DOMAIN t, j >= 2 PROVE PaidAt(u, j + k)
  <2>1. PaidAt(t, j) /\ j \in Int
    BY <1>1 DEF PaidLater
  <2>2. Suffix(t, j, u, k)
    BY <1>1, <1>3, <2>1 DEF Suffix
  <2> QED
    BY <1>1, <2>1, <2>2, PaidMoves
<1>4. PaidLater(u)
  BY <1>1, <1>2, <1>3 DEF PaidLater
<1> QED
  BY <1>4 DEF u

LEMMA RankPush ==
  ASSUME NEW s, NEW t, IsScript(s), IsScript(t), t # <<>>, RankLater(t),
         (\A i \in DOMAIN s : s[i][1] \notin Watched) \/ Head(t)[1] \in Watched
  PROVE  RankLater(Pushed(s, t))
<1> DEFINE u == Pushed(s, t)
           k == Len(s) - 1
<1>1. /\ k \in Int /\ DOMAIN s \subseteq Int /\ DOMAIN t \subseteq Int
      /\ Suffix(s, 1, u, 0) /\ Suffix(t, 2, u, k) /\ \A i \in DOMAIN s : i >= 1 /\ i <= k + 1
      /\ \A i \in DOMAIN u : i \in DOMAIN s \/ \E j \in DOMAIN t : j >= 2 /\ i = j + k
      /\ 1 \in DOMAIN t /\ Head(t) = t[1]
  BY PushFacts
<1> HIDE DEF u, k
<1>2. ASSUME NEW i \in DOMAIN s PROVE RankAt(u, i)
  <2>1. i \in Int /\ i >= 1 /\ i + 0 = i /\ i <= k + 1
    BY <1>1
  <2>2. u[i] = s[i]
    BY <1>1, <2>1 DEF Suffix
  <2>3. CASE s[i][1] \notin Watched
    BY <2>2, <2>3 DEF RankAt
  <2>4. CASE Head(t)[1] \in Watched
    <3>1. PICK j \in DOMAIN t : j > 1 /\ Rereads(t, j, {"rank"})
      BY <1>1, <2>4 DEF RankLater, RankAt
    <3>2. j \in Int /\ j >= 2 /\ j + k > i
      BY <1>1, <2>1, <3>1
    <3>3. j + k \in DOMAIN u /\ Rereads(u, j + k, {"rank"})
      BY <1>1, <3>1, <3>2, RereadsMoves
    <3> QED
      BY <3>2, <3>3 DEF RankAt
  <2> QED
    BY <2>3, <2>4
<1>3. ASSUME NEW j \in DOMAIN t, j >= 2 PROVE RankAt(u, j + k)
  <2>1. RankAt(t, j) /\ j \in Int
    BY <1>1 DEF RankLater
  <2>2. Suffix(t, j, u, k)
    BY <1>1, <1>3, <2>1 DEF Suffix
  <2> QED
    BY <1>1, <2>1, <2>2, RankMoves
<1>4. RankLater(u)
  BY <1>1, <1>2, <1>3 DEF RankLater
<1> QED
  BY <1>4 DEF u

\* What is ahead stays ahead, and what is ahead was ahead or was put there.
LEMMA AheadPush ==
  ASSUME NEW s, NEW t, IsScript(s), IsScript(t), t # <<>>
  PROVE  /\ \A c : HasCall(s, c) => HasCall(Pushed(s, t), c)
         /\ \A c : HasCall(t, c) => Head(t) = c \/ HasCall(Pushed(s, t), c)
         /\ \A c : HasCall(Pushed(s, t), c) => HasCall(s, c) \/ HasCall(t, c)
         /\ \A k : HasKind(s, k) => HasKind(Pushed(s, t), k)
         /\ \A k : HasKind(t, k) => Head(t)[1] = k \/ HasKind(Pushed(s, t), k)
         /\ \A k : HasKind(Pushed(s, t), k) => HasKind(s, k) \/ HasKind(t, k)
         /\ \A K : WillRead(s, K) => WillRead(Pushed(s, t), K)
         /\ \A K : WillRead(t, K) => Rereads(t, 1, K) \/ WillRead(Pushed(s, t), K)
<1> DEFINE u == Pushed(s, t)
           k == Len(s) - 1
<1>1. /\ k \in Int /\ DOMAIN s \subseteq Int /\ DOMAIN t \subseteq Int
      /\ Suffix(s, 1, u, 0) /\ Suffix(t, 2, u, k) /\ \A i \in DOMAIN s : i >= 1
      /\ \A i \in DOMAIN t : i >= 1
      /\ \A i \in DOMAIN u : i \in DOMAIN s \/ \E j \in DOMAIN t : j >= 2 /\ i = j + k
      /\ 1 \in DOMAIN t /\ Head(t) = t[1]
  BY PushFacts
<1> HIDE DEF u, k
<1>2. ASSUME NEW i \in DOMAIN s
      PROVE  i \in DOMAIN u /\ u[i] = s[i] /\ \A K : Rereads(s, i, K) => Rereads(u, i, K)
  <2>1. i \in Int /\ i >= 1 /\ i + 0 = i
    BY <1>1
  <2>2. ASSUME NEW K, Rereads(s, i, K) PROVE Rereads(u, i, K)
    BY <1>1, <2>1, <2>2, RereadsMoves
  <2> QED
    BY <1>1, <2>1, <2>2 DEF Suffix
<1>3. ASSUME NEW j \in DOMAIN t, j # 1
      PROVE  j + k \in DOMAIN u /\ u[j + k] = t[j] /\ \A K : Rereads(t, j, K) => Rereads(u, j + k, K)
  <2>1. j \in Int /\ j >= 2
    BY <1>1, <1>3
  <2>2. ASSUME NEW K, Rereads(t, j, K) PROVE Rereads(u, j + k, K)
    BY <1>1, <2>1, <2>2, RereadsMoves
  <2> QED
    BY <1>1, <2>1, <2>2 DEF Suffix
<1>4. ASSUME NEW i \in DOMAIN u
      PROVE  (i \in DOMAIN s /\ u[i] = s[i]) \/ \E j \in DOMAIN t : u[i] = t[j]
  <2>1. CASE i \in DOMAIN s
    BY <1>2, <2>1
  <2>2. CASE i \notin DOMAIN s
    <3>1. PICK j \in DOMAIN t : j >= 2 /\ i = j + k
      BY <1>1, <2>2
    <3> QED
      BY <1>3, <3>1
  <2> QED
    BY <2>1, <2>2
<1>5. /\ \A c : HasCall(s, c) => HasCall(u, c)
      /\ \A c : HasKind(s, c) => HasKind(u, c)
      /\ \A K : WillRead(s, K) => WillRead(u, K)
  BY <1>2, Zenon DEF HasCall, HasKind, WillRead
<1>6. /\ \A c : HasCall(t, c) => Head(t) = c \/ HasCall(u, c)
      /\ \A c : HasKind(t, c) => Head(t)[1] = c \/ HasKind(u, c)
      /\ \A K : WillRead(t, K) => Rereads(t, 1, K) \/ WillRead(u, K)
  BY <1>1, <1>3, Zenon DEF HasCall, HasKind, WillRead
<1>7. /\ \A c : HasCall(u, c) => HasCall(s, c) \/ HasCall(t, c)
      /\ \A c : HasKind(u, c) => HasKind(s, c) \/ HasKind(t, c)
  BY <1>4, Zenon DEF HasCall, HasKind
<1> QED
  BY <1>5, <1>6, <1>7 DEF u

\* The first call returned: what was second is first.
LEMMA RestFacts ==
  ASSUME NEW t, IsScript(t), t # <<>>
  PROVE  /\ Pushed(<<>>, t) = Tail(t) /\ IsScript(Tail(t)) /\ DOMAIN t \subseteq Int
         /\ Head(t) = t[1] /\ 1 \in DOMAIN t
         /\ \A j \in DOMAIN t : j > 1 => j - 1 \in DOMAIN Tail(t) /\ Tail(t)[j - 1] = t[j]
         /\ 2 \in DOMAIN t => Tail(t) # <<>> /\ Head(Tail(t)) = t[2]
         /\ 2 \notin DOMAIN t => Tail(t) = <<>>
<1> DEFINE r == Tail(t)
           m == Len(t)
<1>1. /\ IsScript(r) /\ m \in Nat \ {0} /\ Len(r) = m - 1
      /\ Head(t) = t[1] /\ \A i \in 1..(m - 1) : r[i] = t[i + 1]
  BY RestOfScript
<1>2. DOMAIN t = 1..m /\ DOMAIN r = 1..(m - 1)
  BY <1>1, ScriptFacts
<1>3. <<>> \o r = r
  BY <1>1, ConcatEmptySeq DEF IsScript
<1> HIDE DEF r, m
<1>4. ASSUME NEW j \in DOMAIN t, j > 1 PROVE j - 1 \in DOMAIN r /\ r[j - 1] = t[j]
  <2>1. j - 1 \in 1..(m - 1) /\ (j - 1) + 1 = j
    BY <1>1, <1>2, <1>4
  <2> QED
    BY <1>1, <1>2, <2>1
<1>5. 2 \in DOMAIN t => r # <<>> /\ Head(r) = t[2]
  <2>1. ASSUME 2 \in DOMAIN t PROVE r # <<>> /\ Head(r) = t[2]
    <3>1. 1 \in DOMAIN r /\ r[1] = t[2]
      BY <1>4, <2>1
    <3>2. Len(r) # 0
      BY <1>1, <1>2, <3>1
    <3>3. r # <<>>
      BY <3>2, EmptySeq
    <3>4. Head(r) = r[1]
      BY <1>1, <3>3, RestOfScript
    <3> QED
      BY <3>1, <3>3, <3>4
  <2> QED
    BY <2>1
<1>6. 2 \notin DOMAIN t => r = <<>>
  <2>1. ASSUME 2 \notin DOMAIN t PROVE r = <<>>
    <3>1. Len(r) = 0
      BY <1>1, <1>2, <2>1
    <3> QED
      BY <1>1, <3>1, EmptySeq DEF IsScript
  <2> QED
    BY <2>1
<1>7. 1 \in DOMAIN t /\ DOMAIN t \subseteq Int
  BY <1>1, <1>2
<1> QED
  BY <1>1, <1>3, <1>4, <1>5, <1>6, <1>7 DEF r, Pushed

\* A recalculation goes on: what reads its answer comes nearer.
LEMMA ReadingGoesOn ==
  ASSUME NEW t, IsScript(t), t # <<>>, Sound(t), NEW r, r = Tail(t)
  PROVE  /\ Head(t)[1] = "totals" => HeadIs(r, {"dates"})
         /\ Head(t)[1] = "dates" => HeadIs(r, {"ownerships"})
         /\ Head(t)[1] = "ownerships" => HeadIs(r, {"project"})
         /\ \A K : Rereads(t, 1, K) => InRead(r, K)
         /\ \A K : InRead(t, K) /\ Head(t)[1] \in {"dates", "ownerships"} => InRead(r, K)
         /\ \A K : InRead(t, K) /\ Head(t)[1] \in {"project", "enroll"} => HeadIs(r, K)
<1>1. /\ DOMAIN t \subseteq Int /\ Head(t) = t[1] /\ 1 \in DOMAIN t
      /\ \A j \in DOMAIN t : j > 1 => j - 1 \in DOMAIN r /\ r[j - 1] = t[j]
      /\ 2 \in DOMAIN t => r # <<>> /\ Head(r) = t[2]
  BY RestFacts
<1>2. SoundAt(t, 1)
  BY <1>1 DEF Sound
<1>3. /\ Head(t)[1] = "totals" => HeadIs(r, {"dates"})
      /\ Head(t)[1] = "dates" => HeadIs(r, {"ownerships"})
      /\ Head(t)[1] = "ownerships" => HeadIs(r, {"project"})
  <2>1. /\ t[1][1] = "totals" => 2 \in DOMAIN t /\ t[2][1] = "dates"
        /\ t[1][1] = "dates" => 2 \in DOMAIN t /\ t[2][1] = "ownerships"
        /\ t[1][1] = "ownerships" => 2 \in DOMAIN t /\ t[2][1] = "project"
    BY <1>2 DEF SoundAt
  <2> QED
    BY <1>1, <2>1 DEF HeadIs
<1>4. ASSUME NEW K, Rereads(t, 1, K) PROVE InRead(r, K)
  <2>1. 5 \in DOMAIN t /\ t[5][1] \in K /\ t[1][1] = "totals"
    BY <1>4 DEF Rereads
  <2>2. 4 \in DOMAIN r /\ r[4] = t[5]
    BY <1>1, <2>1
  <2> QED
    BY <1>1, <1>3, <2>1, <2>2 DEF InRead
<1>5. ASSUME NEW K, InRead(t, K), Head(t)[1] \in {"dates", "ownerships"} PROVE InRead(r, K)
  <2>1. CASE Head(t)[1] = "dates"
    <3>1. 4 \in DOMAIN t /\ t[4][1] \in K
      BY <1>5, <2>1 DEF InRead, HeadIs
    <3>2. 3 \in DOMAIN r /\ r[3] = t[4]
      BY <1>1, <3>1
    <3> QED
      BY <1>3, <2>1, <3>1, <3>2 DEF InRead
  <2>2. CASE Head(t)[1] = "ownerships"
    <3>1. 3 \in DOMAIN t /\ t[3][1] \in K
      BY <1>5, <2>2 DEF InRead, HeadIs
    <3>2. 2 \in DOMAIN r /\ r[2] = t[3]
      BY <1>1, <3>1
    <3>3. HeadIs(r, {"project", "enroll"})
      BY <1>3, <2>2 DEF HeadIs
    <3> QED
      BY <3>1, <3>2, <3>3 DEF InRead
  <2> QED
    BY <1>5, <2>1, <2>2
<1>6. ASSUME NEW K, InRead(t, K), Head(t)[1] \in {"project", "enroll"} PROVE HeadIs(r, K)
  <2>1. 2 \in DOMAIN t /\ t[2][1] \in K
    BY <1>6 DEF InRead, HeadIs
  <2> QED
    BY <1>1, <2>1 DEF HeadIs
<1> QED
  BY <1>3, <1>4, <1>5, <1>6

\* There is no profile yet: the recalculation creates it.
LEMMA EnrollingGoesOn ==
  ASSUME NEW t, IsScript(t), t # <<>>, Head(t)[1] = "project",
         NEW u, u = Pushed(<<Do("enroll")>>, t)
  PROVE  /\ HeadIs(u, {"enroll"})
         /\ \A K : InRead(t, K) => InRead(u, K)
<1> DEFINE s == <<Do("enroll")>>
<1>1. s \in Seq({Do("enroll")}) /\ Len(s) = 1 /\ s[1] = Do("enroll") /\ 1 \in DOMAIN s
  OBVIOUS
<1>2. IsScript(s)
  BY <1>1, SeqIsScript
<1> HIDE DEF s
<1>3. /\ IsScript(u) /\ Suffix(s, 1, u, 0) /\ Suffix(t, 2, u, 0) /\ Head(t) = t[1]
  <2>1. /\ IsScript(u) /\ Suffix(s, 1, u, 0) /\ Suffix(t, 2, u, Len(s) - 1) /\ Head(t) = t[1]
    BY <1>2, PushFacts DEF s
  <2>2. Len(s) - 1 = 0
    BY <1>1
  <2> QED
    BY <2>1, <2>2
<1>4. 1 \in DOMAIN u /\ u[1] = Do("enroll")
  BY <1>1, <1>3 DEF Suffix
<1>5. u # <<>> /\ Head(u) = u[1]
  <2>1. Len(u) \in Nat /\ DOMAIN u = 1..Len(u)
    BY <1>3, ScriptFacts
  <2>2. Len(u) # 0
    BY <1>4, <2>1
  <2>3. u # <<>>
    BY <2>2, EmptySeq
  <2> QED
    BY <1>3, <2>3, RestOfScript
<1>6. HeadIs(u, {"enroll"})
  BY <1>4, <1>5 DEF HeadIs, Do
<1>7. ASSUME NEW K, InRead(t, K) PROVE InRead(u, K)
  <2>1. 2 \in DOMAIN t /\ t[2][1] \in K
    BY <1>7 DEF InRead, HeadIs
  <2>2. 2 \in DOMAIN u /\ u[2] = t[2]
    BY <1>3, <2>1 DEF Suffix
  <2>3. HeadIs(u, {"project", "enroll"})
    BY <1>6 DEF HeadIs
  <2> QED
    BY <2>1, <2>2, <2>3 DEF InRead
<1> QED
  BY <1>6, <1>7

\* What the first call of a script is sure to lead to.
LEMMA HeadLeads ==
  ASSUME NEW s, NEW t, IsScript(s), IsScript(t), t # <<>>, Sound(t), NEW u, u = Pushed(s, t)
  PROVE  /\ Head(t)[1] \in {"create", "day"} => WillRead(u, Evaluations)
         /\ Head(t)[1] = "restore" /\ s = <<>> =>
              HeadIs(u, {"repaired"}) \/ WillRead(u, Evaluations)
         /\ PaidLater(t) /\ Head(t)[1] \in Paying => HasKind(u, "totals")
         /\ RankLater(t) /\ Head(t)[1] \in Watched => WillRead(u, {"rank"})
         /\ Head(t)[1] \in Hows => HasCall(u, <<"medal", Head(t)[2]>>)
         /\ Head(t)[1] = "medal" => HasCall(u, <<"tell", Head(t)[2]>>)
         /\ Head(t)[1] = "event" => HasCall(u, <<"notify", Head(t)[2]>>)
<1> DEFINE k == Len(s) - 1
<1>1. /\ k \in Int /\ DOMAIN t \subseteq Int /\ Suffix(t, 2, u, k)
      /\ 1 \in DOMAIN t /\ Head(t) = t[1]
  BY PushFacts
<1> HIDE DEF k
<1>2. SoundAt(t, 1)
  BY <1>1 DEF Sound
<1>3. ASSUME NEW j \in DOMAIN t, j > 1
      PROVE  /\ j + k \in DOMAIN u /\ u[j + k] = t[j]
             /\ \A K : Rereads(t, j, K) => Rereads(u, j + k, K)
  <2>1. j \in Int /\ j >= 2
    BY <1>1, <1>3
  <2>2. ASSUME NEW K, Rereads(t, j, K) PROVE Rereads(u, j + k, K)
    BY <1>1, <2>1, <2>2, RereadsMoves
  <2> QED
    BY <1>1, <2>1, <2>2 DEF Suffix
<1>4. Head(t)[1] \in {"create", "day"} => WillRead(u, Evaluations)
  <2>1. ASSUME t[1][1] \in {"create", "day"} PROVE WillRead(u, Evaluations)
    <3>1. PICK j \in DOMAIN t : j > 1 /\ Rereads(t, j, Evaluations)
      BY <1>2, <2>1 DEF SoundAt
    <3> QED
      BY <1>3, <3>1 DEF WillRead
  <2> QED
    BY <1>1, <2>1
<1>5. Head(t)[1] = "restore" /\ s = <<>> => HeadIs(u, {"repaired"}) \/ WillRead(u, Evaluations)
  <2>1. ASSUME t[1][1] = "restore", s = <<>> PROVE HeadIs(u, {"repaired"}) \/ WillRead(u, Evaluations)
    <3>1. 2 \in DOMAIN t /\ (t[2][1] = "repaired" \/ Rereads(t, 2, Evaluations))
      BY <1>2, <2>1 DEF SoundAt
    <3>2. u # <<>> /\ Head(u) = t[2]
      BY <2>1, <3>1, RestFacts
    <3>3. Rereads(t, 2, Evaluations) => WillRead(u, Evaluations)
      BY <1>3, <3>1 DEF WillRead
    <3> QED
      BY <3>1, <3>2, <3>3 DEF HeadIs
  <2> QED
    BY <1>1, <2>1
<1>6. PaidLater(t) /\ Head(t)[1] \in Paying => HasKind(u, "totals")
  <2>1. ASSUME PaidLater(t), t[1][1] \in Paying PROVE HasKind(u, "totals")
    <3>1. PICK j \in DOMAIN t : j > 1 /\ t[j][1] = "totals"
      BY <1>1, <2>1 DEF PaidLater, PaidAt
    <3> QED
      BY <1>3, <3>1 DEF HasKind
  <2> QED
    BY <1>1, <2>1
<1>7. RankLater(t) /\ Head(t)[1] \in Watched => WillRead(u, {"rank"})
  <2>1. ASSUME RankLater(t), t[1][1] \in Watched PROVE WillRead(u, {"rank"})
    <3>1. PICK j \in DOMAIN t : j > 1 /\ Rereads(t, j, {"rank"})
      BY <1>1, <2>1 DEF RankLater, RankAt
    <3> QED
      BY <1>3, <3>1 DEF WillRead
  <2> QED
    BY <1>1, <2>1
<1>8. ASSUME 2 \in DOMAIN t PROVE HasCall(u, t[2])
  BY <1>3, <1>8 DEF HasCall
<1>9. /\ t[1][1] \in Hows => 2 \in DOMAIN t /\ t[2] = <<"medal", t[1][2]>>
      /\ t[1][1] = "medal" => 2 \in DOMAIN t /\ t[2] = <<"tell", t[1][2]>>
      /\ t[1][1] = "event" => 2 \in DOMAIN t /\ t[2] = <<"notify", t[1][2]>>
  BY <1>2 DEF SoundAt
<1> QED
  BY <1>1, <1>4, <1>5, <1>6, <1>7, <1>8, <1>9

-----------------------------------------------------------------------------
(* The scripts that requests begin with and that calls put in front.       *)

\* What a call of kind k may put in front of the rest.
Pushes(k, s) ==
  /\ IsScript(s) /\ Sound(s) /\ (PaidLater(s) \/ k \in Paying)
  /\ k \in Watched \/ \A i \in DOMAIN s : s[i][1] \notin Watched
  /\ \A i \in DOMAIN s : s[i][1] \notin {"create", "rank"}

LEMMA PushesNothing ==
  ASSUME NEW k
  PROVE  Pushes(k, <<>>)
<1>1. IsScript(<<>>) /\ DOMAIN <<>> = {}
  BY NonePlain DEF Plain
<1> QED
  BY <1>1 DEF Pushes, Sound, PaidLater

LEMMA PushesEnroll ==
  ASSUME NEW k
  PROVE  Pushes(k, <<Do("enroll")>>)
<1> DEFINE s == <<Do("enroll")>>
<1>1. s \in Seq({Do("enroll")}) /\ DOMAIN s = {1} /\ s[1][1] = "enroll"
  BY DEF Do
<1>2. IsScript(s)
  BY <1>1, SeqIsScript
<1> HIDE DEF s
<1>3. Sound(s) /\ PaidLater(s)
  BY <1>1 DEF Sound, SoundAt, PaidLater, PaidAt, Paying, Evaluations, Hows
<1>4. Pushes(k, s)
  BY <1>1, <1>2, <1>3 DEF Pushes, Watched, Paying, Evaluations, Hows
<1> QED
  BY <1>4 DEF s

LEMMA PushesAnnouncement ==
  ASSUME NEW k, NEW r
  PROVE  /\ Pushes(k, <<<<"event", r>>, <<"notify", r>>>>)
         /\ HasCall(<<<<"event", r>>, <<"notify", r>>>>, <<"event", r>>)
         /\ \A i \in DOMAIN <<<<"event", r>>, <<"notify", r>>>> :
              <<<<"event", r>>, <<"notify", r>>>>[i][1] \notin Hows
<1> DEFINE s == <<<<"event", r>>, <<"notify", r>>>>
<1>1. /\ s \in Seq({<<"event", r>>, <<"notify", r>>}) /\ DOMAIN s = {1, 2}
      /\ s[1] = <<"event", r>> /\ s[2] = <<"notify", r>>
  OBVIOUS
<1>2. IsScript(s)
  BY <1>1, SeqIsScript
<1> HIDE DEF s
<1>3. Sound(s) /\ PaidLater(s)
  <2>1. SoundAt(s, 1)
    BY <1>1 DEF SoundAt, Hows
  <2>2. SoundAt(s, 2)
    BY <1>1 DEF SoundAt, Hows
  <2> QED
    BY <1>1, <2>1, <2>2 DEF Sound, PaidLater, PaidAt, Paying, Evaluations, Hows
<1>4. Pushes(k, s)
  BY <1>1, <1>2, <1>3 DEF Pushes, Watched, Paying, Evaluations, Hows
<1>5. HasCall(s, <<"event", r>>) /\ \A i \in DOMAIN s : s[i][1] \notin Hows
  BY <1>1 DEF HasCall, Hows
<1> QED
  BY <1>4, <1>5 DEF s

\* A badge that was earned live: the profile first, then the celebration.
LEMMA PushesCelebration ==
  ASSUME NEW k, NEW r
  PROVE  LET s == Recalculate \o <<<<"event", r>>, <<"notify", r>>>>
         IN /\ Pushes(k, s) /\ HasCall(s, <<"event", r>>)
            /\ \A i \in DOMAIN s : s[i][1] \notin Hows
<1> DEFINE s == Recalculate \o <<<<"event", r>>, <<"notify", r>>>>
<1>1. Plain(<<<<"event", r>>, <<"notify", r>>>>)
  BY TwoPlain
<1>2. IsScript(s)
  BY <1>1, RecalculatePlain, PlainJoins DEF Plain
<1>3. /\ s[1] = Do("totals") /\ s[2] = Do("dates") /\ s[3] = Do("ownerships") /\ s[4] = Do("project")
      /\ s[5] = <<"event", r>> /\ s[6] = <<"notify", r>> /\ DOMAIN s = 1..6
  BY SMTT(60) DEF Recalculate
<1> HIDE DEF s
<1>4. DOMAIN s = {1, 2, 3, 4, 5, 6}
  BY <1>3
<1>5. ASSUME NEW i \in DOMAIN s PROVE SoundAt(s, i)
  <2>1. i \in {1, 2, 3, 4}
         => SoundAt(s, i)
    BY <1>3, <1>4 DEF SoundAt, Hows, Do
  <2>2. i \in {5, 6} => SoundAt(s, i)
    BY <1>3, <1>4 DEF SoundAt, Hows, Do
  <2> QED
    BY <1>4, <2>1, <2>2
<1>6. \A i \in DOMAIN s : s[i][1] \in {"totals", "dates", "ownerships", "project", "event", "notify"}
  BY <1>3, <1>4 DEF Do
<1>7. Sound(s) /\ PaidLater(s)
  BY <1>5, <1>6 DEF Sound, PaidLater, PaidAt, Paying, Evaluations, Hows
<1>8. Pushes(k, s)
  BY <1>2, <1>6, <1>7 DEF Pushes, Watched, Paying, Evaluations, Hows
<1>9. HasCall(s, <<"event", r>>) /\ \A i \in DOMAIN s : s[i][1] \notin Hows
  BY <1>3, <1>4, <1>6 DEF HasCall, Hows
<1> QED
  BY <1>8, <1>9 DEF s

LEMMA PushesBackfill ==
  ASSUME NEW k \in {"migrate", "inspect"}, NEW x
  PROVE  /\ Pushes(k, Backfill(x))
         /\ \A i \in DOMAIN Backfill(x) : Backfill(x)[i][1] \notin Hows
         /\ HasKind(Backfill(x), "totals") /\ Backfill(x) # <<>> /\ PaidLater(Backfill(x))
<1> DEFINE s == Backfill(x)
<1>2. IsScript(s)
  BY BackfillPlain DEF Plain
<1>3. /\ s[1] = <<"reconcile", x>> /\ s[2] = Do("restore")
      /\ s[3] = Do("totals") /\ s[4] = Do("dates") /\ s[5] = Do("ownerships") /\ s[6] = Do("project")
      /\ s[7] = Do("badgesQuiet") /\ s[8] = Do("stamp")
      /\ s[9] = Do("totals") /\ s[10] = Do("dates") /\ s[11] = Do("ownerships") /\ s[12] = Do("project")
      /\ DOMAIN s = 1..12
  BY SMTT(60) DEF Recalculate, Backfill
<1> HIDE DEF s
<1>4. DOMAIN s = {1, 2, 3, 4, 5, 6, 7, 8, 9, 10, 11, 12}
  BY <1>3
<1>5. Rereads(s, 3, Evaluations)
  BY <1>3, <1>4 DEF Rereads, Evaluations, Do
<1>6. ASSUME NEW i \in DOMAIN s PROVE SoundAt(s, i)
  <2>1. i \in {1, 2} => SoundAt(s, i)
    BY <1>3, <1>4, <1>5 DEF SoundAt, Hows, Do
  <2>2. i \in {3, 4, 5, 6, 7, 8} => SoundAt(s, i)
    BY <1>3, <1>4 DEF SoundAt, Hows, Do
  <2>3. i \in {9, 10, 11, 12} => SoundAt(s, i)
    BY <1>3, <1>4 DEF SoundAt, Hows, Do
  <2> QED
    BY <1>4, <2>1, <2>2, <2>3
<1>7. \A i \in DOMAIN s : i # 7 =>
        s[i][1] \in {"reconcile", "restore", "totals", "dates", "ownerships", "project", "stamp"}
  BY <1>3, <1>4 DEF Do
<1>8. s[7][1] = "badgesQuiet" /\ 7 \in DOMAIN s /\ 9 \in DOMAIN s /\ s[9][1] = "totals" /\ 3 \in DOMAIN s
  BY <1>3, <1>4 DEF Do
<1>9. \A i \in DOMAIN s : PaidAt(s, i)
  <2>1. PaidAt(s, 7)
    BY <1>8 DEF PaidAt
  <2>2. ASSUME NEW i \in DOMAIN s, i # 7 PROVE PaidAt(s, i)
    BY <1>7, <2>2 DEF PaidAt, Paying, Evaluations, Hows
  <2> QED
    BY <2>1, <2>2
<1>10. Sound(s) /\ PaidLater(s)
  BY <1>6, <1>9 DEF Sound, PaidLater
<1>11. \A i \in DOMAIN s : s[i][1] \notin {"create", "rank"} \cup Hows
  BY <1>7, <1>8 DEF Hows
<1>12. Pushes(k, s)
  BY <1>2, <1>10, <1>11 DEF Pushes, Watched
<1>13. HasKind(s, "totals") /\ s # <<>>
  BY <1>8 DEF HasKind
<1> QED
  BY <1>10, <1>11, <1>12, <1>13 DEF s

LEMMA PushesRepair ==
  LET s == <<<<"reconcile", None>>, Do("restore"), Do("repaired")>>
  IN Pushes("inspect", s) /\ \A i \in DOMAIN s : s[i][1] \notin Hows
<1> DEFINE s == <<<<"reconcile", None>>, Do("restore"), Do("repaired")>>
<1>1. s \in Seq({<<"reconcile", None>>, Do("restore"), Do("repaired")})
  OBVIOUS
<1>2. IsScript(s)
  BY <1>1, SeqIsScript
<1>3. /\ s[1][1] = "reconcile" /\ s[2][1] = "restore" /\ s[3][1] = "repaired" /\ DOMAIN s = {1, 2, 3}
  BY DEF Do
<1> HIDE DEF s
<1>4. SoundAt(s, 1) /\ SoundAt(s, 2) /\ SoundAt(s, 3)
  BY <1>3 DEF SoundAt, Hows
<1>5. Sound(s) /\ PaidLater(s)
  BY <1>3, <1>4 DEF Sound, PaidLater, PaidAt, Paying, Evaluations, Hows
<1>6. Pushes("inspect", s) /\ \A i \in DOMAIN s : s[i][1] \notin Hows
  BY <1>2, <1>3, <1>5 DEF Pushes, Watched, Hows
<1> QED
  BY <1>6 DEF s

LEMMA PushesReevaluation ==
  LET s == Recalculate \o <<Do("badgesLive")>> \o Recalculate
  IN /\ Pushes("repaired", s) /\ \A i \in DOMAIN s : s[i][1] \notin Hows
     /\ HasKind(s, "totals") /\ WillRead(s, Evaluations)
<1> DEFINE s == Recalculate \o <<Do("badgesLive")>> \o Recalculate
<1>1. Plain(<<Do("badgesLive")>>)
  BY OnePlain DEF Do
<1>2. IsScript(s)
  BY <1>1, RecalculatePlain, PlainJoins DEF Plain
<1>3. /\ s[1] = Do("totals") /\ s[2] = Do("dates") /\ s[3] = Do("ownerships") /\ s[4] = Do("project")
      /\ s[5] = Do("badgesLive")
      /\ s[6] = Do("totals") /\ s[7] = Do("dates") /\ s[8] = Do("ownerships") /\ s[9] = Do("project")
      /\ DOMAIN s = 1..9
  BY SMTT(60) DEF Recalculate
<1> HIDE DEF s
<1>4. DOMAIN s = {1, 2, 3, 4, 5, 6, 7, 8, 9}
  BY <1>3
<1>5. Rereads(s, 1, Evaluations)
  BY <1>3, <1>4 DEF Rereads, Evaluations, Do
<1>6. ASSUME NEW i \in DOMAIN s PROVE SoundAt(s, i)
  <2>1. i \in {1, 2, 3, 4, 5} => SoundAt(s, i)
    BY <1>3, <1>4 DEF SoundAt, Hows, Do
  <2>2. i \in {6, 7, 8, 9} => SoundAt(s, i)
    BY <1>3, <1>4 DEF SoundAt, Hows, Do
  <2> QED
    BY <1>4, <2>1, <2>2
<1>7. \A i \in DOMAIN s : i # 5 => s[i][1] \in {"totals", "dates", "ownerships", "project"}
  BY <1>3, <1>4 DEF Do
<1>8. s[5][1] = "badgesLive" /\ 5 \in DOMAIN s /\ 6 \in DOMAIN s /\ s[6][1] = "totals" /\ 1 \in DOMAIN s
  BY <1>3, <1>4 DEF Do
<1>9. \A i \in DOMAIN s : PaidAt(s, i)
  <2>1. PaidAt(s, 5)
    BY <1>8 DEF PaidAt
  <2>2. ASSUME NEW i \in DOMAIN s, i # 5 PROVE PaidAt(s, i)
    BY <1>7, <2>2 DEF PaidAt, Paying, Evaluations, Hows
  <2> QED
    BY <2>1, <2>2
<1>10. Sound(s) /\ PaidLater(s)
  BY <1>6, <1>9 DEF Sound, PaidLater
<1>11. \A i \in DOMAIN s : s[i][1] \notin {"create", "rank"} \cup Hows
  BY <1>7, <1>8 DEF Hows
<1>12. Pushes("repaired", s)
  BY <1>2, <1>10, <1>11 DEF Pushes, Watched
<1>13. HasKind(s, "totals") /\ WillRead(s, Evaluations)
  BY <1>5, <1>8 DEF HasKind, WillRead
<1> QED
  BY <1>11, <1>12, <1>13 DEF s

\* Own it, pay it, tell of it: for each badge that the evaluation found.
LEMMA PushesBadges ==
  ASSUME NEW k \in Evaluations, NEW how \in Hows, NEW B \in SUBSET Badges
  PROVE  LET s == BadgeScript(how, SetToSeq(B))
         IN /\ Pushes(k, s)
            /\ \A b \in B : HasCall(s, <<how, b>>)
            /\ \A i \in DOMAIN s : s[i][1] \in Hows => s[i][2] \in B
<1> DEFINE order == SetToSeq(B)
           n == Cardinality(B)
           s == BadgeScript(how, order)
           kind(i) == IF i % 3 = 1 THEN how ELSE IF i % 3 = 2 THEN "medal" ELSE "tell"
<1>1. IsFiniteSet(B)
  BY RewardsAssumption, FS_Subset
<1>2. n \in Nat /\ ExistsBijection(1..n, B)
  BY <1>1, FS_CardinalityType
<1>3. \E f \in [1..n -> B] : IsInjective(f)
  BY <1>2 DEF ExistsBijection, Bijection, Injection, IsInjective
<1>4. order \in [1..n -> B] /\ IsInjective(order)
  BY <1>3 DEF SetToSeq
<1>5. Len(order) = n /\ order \in Seq(B)
  BY <1>2, <1>4
<1>6. \A b \in B : \E m \in 1..n : order[m] = b
  <2>1. Cardinality(1..n) = n /\ IsFiniteSet(1..n)
    BY <1>2, FS_Interval
  <2>2. order \in Injection(1..n, B)
    BY <1>4 DEF Injection, IsInjective
  <2>3. order \in Surjection(1..n, B)
    BY <1>1, <2>1, <2>2, FS_Injection DEF n
  <2> QED
    BY <2>3 DEF Surjection
<1> HIDE DEF order, n
<1>7. s = [i \in 1..3 * n |-> <<kind(i), order[(i + 2) \div 3]>>]
  BY <1>5 DEF BadgeScript
<1>8. Good(s, done, ledger)
  BY BadgeScriptGood DEF order, Hows
<1>9. IsScript(s)
  BY <1>8 DEF Good
<1> HIDE DEF s
<1>10. DOMAIN s = 1..3 * n /\ \A i \in 1..3 * n : s[i] = <<kind(i), order[(i + 2) \div 3]>>
  BY <1>7
<1>11. ASSUME NEW i \in 1..3 * n PROVE order[(i + 2) \div 3] \in B
  <2>1. (i + 2) \div 3 \in 1..n
    BY <1>2, Z3
  <2> QED
    BY <1>4, <2>1
<1>12. ASSUME NEW i \in DOMAIN s
       PROVE  /\ \/ i % 3 = 1 /\ s[i] = <<how, s[i][2]>>
                 \/ i % 3 = 2 /\ s[i] = <<"medal", s[i][2]>>
                 \/ i % 3 = 0 /\ s[i] = <<"tell", s[i][2]>>
              /\ s[i][2] \in B
  <2>1. i \in 1..3 * n /\ i \in Int
    BY <1>2, <1>10
  <2>2. i % 3 = 0 \/ i % 3 = 1 \/ i % 3 = 2
    BY <2>1, Z3
  <2>3. s[i] = <<kind(i), order[(i + 2) \div 3]>>
    BY <1>10, <2>1
  <2>4. s[i][2] \in B /\ s[i] = <<kind(i), s[i][2]>>
    BY <1>11, <2>1, <2>3
  <2> QED
    BY <2>2, <2>4
<1>13. ASSUME NEW i \in DOMAIN s, i % 3 # 0
       PROVE  /\ i + 1 \in DOMAIN s /\ s[i + 1][2] = s[i][2]
              /\ i % 3 = 1 => (i + 1) % 3 = 2
              /\ i % 3 = 2 => (i + 1) % 3 = 0
  <2>1. i \in 1..3 * n
    BY <1>10
  <2>2. i \in Int /\ i >= 1 /\ i <= 3 * n
    BY <1>2, <2>1
  <2>3. i % 3 = 1 \/ i % 3 = 2
    BY <1>13, <2>2, Z3
  <2>4. i + 1 \in 1..3 * n
    BY <1>2, <2>2, <2>3, Z3
  <2>5. (i % 3 = 1 => (i + 1) % 3 = 2) /\ (i % 3 = 2 => (i + 1) % 3 = 0)
    <3>1. ASSUME NEW x \in Int, x % 3 = 1 PROVE (x + 1) % 3 = 2
      BY <3>1, Z3
    <3>2. ASSUME NEW x \in Int, x % 3 = 2 PROVE (x + 1) % 3 = 0
      BY <3>2, Z3
    <3> QED
      BY <2>2, <3>1, <3>2
  <2>6. ((i + 1) + 2) \div 3 = (i + 2) \div 3
    BY <2>2, <2>3, Z3
  <2> HIDE DEF kind
  <2>7. s[i] = <<kind(i), order[(i + 2) \div 3]>>
    BY <1>10, <2>1
  <2>8. s[i + 1] = <<kind(i + 1), order[((i + 1) + 2) \div 3]>>
    BY <1>10, <2>4
  <2>9. s[i + 1][2] = s[i][2]
    BY <2>6, <2>7, <2>8
  <2> QED
    BY <1>10, <2>4, <2>5, <2>9
<1>14. how \in {"live", "quiet"}
  BY DEF Hows
<1>15. ASSUME NEW i \in DOMAIN s PROVE SoundAt(s, i)
  <2>1. CASE i % 3 = 1
    <3>1. s[i][1] = how /\ i + 1 \in DOMAIN s /\ s[i + 1] = <<"medal", s[i][2]>>
      BY <1>12, <1>13, <2>1, <1>14
    <3> QED
      BY <1>14, <3>1 DEF SoundAt, Hows
  <2>2. CASE i % 3 = 2
    <3>1. s[i][1] = "medal" /\ i + 1 \in DOMAIN s /\ s[i + 1] = <<"tell", s[i][2]>>
      BY <1>12, <1>13, <2>2
    <3> QED
      BY <3>1 DEF SoundAt, Hows
  <2>3. CASE i % 3 = 0
    <3>1. s[i][1] = "tell"
      BY <1>12, <2>3
    <3> QED
      BY <3>1 DEF SoundAt, Hows
  <2> QED
    BY <1>12, <2>1, <2>2, <2>3
<1>16. \A i \in DOMAIN s : s[i][1] \in {how, "medal", "tell"} /\ s[i][2] \in B
  BY <1>12
<1>17. Pushes(k, s)
  BY <1>9, <1>14, <1>15, <1>16 DEF Pushes, Sound, Watched, Paying
<1>18. ASSUME NEW b \in B PROVE HasCall(s, <<how, b>>)
  <2>1. PICK m \in 1..n : order[m] = b
    BY <1>6
  <2>2. 3 * m - 2 \in 1..3 * n /\ ((3 * m - 2) + 2) \div 3 = m /\ (3 * m - 2) % 3 = 1
    BY <1>2, <2>1, Z3
  <2>3. s[3 * m - 2] = <<how, b>>
    BY <1>10, <2>1, <2>2
  <2> QED
    BY <1>10, <2>2, <2>3 DEF HasCall
<1> QED
  BY <1>16, <1>17, <1>18 DEF s, order

\* What every request begins with.
Opens(s) ==
  /\ IsScript(s) /\ Sound(s) /\ PaidLater(s) /\ s # <<>>
  /\ \A i \in DOMAIN s : s[i][1] \notin Hows

\* An award books its one activity, evaluates badges after that, and compares ranks last.
LEMMA AwardOpens ==
  ASSUME NEW a
  PROVE  LET s == AwardScript(a)
         IN /\ Opens(s) /\ RankLater(s) /\ WillRead(s, Evaluations) /\ HeadIs(s, {"totals"})
            /\ \A i \in DOMAIN s : s[i][1] \in {"create", "rank"} => s[i][2] = a
            /\ \A i, j \in DOMAIN s : s[i][1] = "create" /\ s[j][1] = "create" => i = j
            /\ HasKind(s, "totals")
<1> DEFINE s == AwardScript(a)
<1>1. /\ s[1] = Do("totals") /\ s[2] = Do("dates") /\ s[3] = Do("ownerships") /\ s[4] = Do("project")
      /\ s[5] = <<"migrate", Activity(a)>> /\ s[6] = <<"create", a>> /\ s[7] = <<"day", a>>
      /\ s[8] = Do("totals") /\ s[9] = Do("dates") /\ s[10] = Do("ownerships") /\ s[11] = Do("project")
      /\ s[12] = Do("badgesLive")
      /\ s[13] = Do("totals") /\ s[14] = Do("dates") /\ s[15] = Do("ownerships") /\ s[16] = Do("project")
      /\ s[17] = <<"rank", a>> /\ s[18] = Do("reply")
  BY SMTT(60) DEF Recalculate, AwardScript
<1>2. DOMAIN s = 1..18
  BY SMTT(60) DEF Recalculate, AwardScript
<1>3. s \in Seq({s[i] : i \in 1..18})
  BY SMTT(60) DEF Recalculate, AwardScript
<1> HIDE DEF s
<1>4. IsScript(s)
  BY <1>3, SeqIsScript
<1>5. DOMAIN s = {1, 2, 3, 4, 5, 6, 7, 8, 9, 10, 11, 12, 13, 14, 15, 16, 17, 18}
  BY <1>2
<1>6. /\ \A i \in {1, 8, 13} : s[i][1] = "totals"
      /\ \A i \in {2, 9, 14} : s[i][1] = "dates"
      /\ \A i \in {3, 10, 15} : s[i][1] = "ownerships"
      /\ \A i \in {4, 11, 16} : s[i][1] = "project"
      /\ s[5][1] = "migrate" /\ s[6][1] = "create" /\ s[7][1] = "day" /\ s[12][1] = "badgesLive"
      /\ s[17][1] = "rank" /\ s[18][1] = "reply" /\ s[6][2] = a /\ s[17][2] = a
  BY <1>1 DEF Do
<1>7. Rereads(s, 8, Evaluations) /\ Rereads(s, 13, {"rank"})
  BY <1>5, <1>6 DEF Rereads, Evaluations
<1>8. ASSUME NEW i \in DOMAIN s PROVE SoundAt(s, i)
  <2>1. i \in {1, 2, 3, 4, 8, 9} => SoundAt(s, i)
    BY <1>5, <1>6 DEF SoundAt, Hows
  <2>2. i \in {10, 11, 12, 13, 14, 15} => SoundAt(s, i)
    BY <1>5, <1>6 DEF SoundAt, Hows
  <2>3. i \in {5, 16, 17, 18} => SoundAt(s, i)
    BY <1>5, <1>6 DEF SoundAt, Hows
  <2>4. i \in {6, 7} => SoundAt(s, i)
    BY <1>5, <1>6, <1>7 DEF SoundAt, Hows
  <2> QED
    BY <1>5, <2>1, <2>2, <2>3, <2>4
<1>9. ASSUME NEW i \in DOMAIN s PROVE RankAt(s, i) /\ PaidAt(s, i)
  <2>1. CASE i < 13
    <3>1. 13 \in DOMAIN s /\ 13 > i /\ s[13][1] = "totals" /\ Rereads(s, 13, {"rank"})
      BY <1>5, <1>6, <1>7, <2>1
    <3> QED
      BY <3>1 DEF RankAt, PaidAt
  <2>2. CASE i >= 13
    <3>1. s[i][1] \in {"totals", "dates", "ownerships", "project", "rank", "reply"}
      BY <1>5, <1>6, <2>2
    <3> QED
      BY <3>1 DEF RankAt, PaidAt, Watched, Paying, Evaluations, Hows
  <2>3. i \in Int
    BY <1>2
  <2> QED
    BY <2>1, <2>2, <2>3
<1>10. /\ \A i \in DOMAIN s : s[i][1] \notin Hows
       /\ \A i \in DOMAIN s : s[i][1] = "create" => i = 6
       /\ \A i \in DOMAIN s : s[i][1] = "rank" => i = 17
  BY <1>5, <1>6 DEF Hows
<1>11. 1 \in DOMAIN s /\ s # <<>>
  BY <1>5
<1>12. Head(s) = s[1]
  BY <1>4, <1>11, RestOfScript
<1>13. Opens(s) /\ RankLater(s)
  BY <1>4, <1>8, <1>9, <1>10, <1>11 DEF Opens, Sound, PaidLater, RankLater
<1>14. WillRead(s, Evaluations) /\ HeadIs(s, {"totals"}) /\ HasKind(s, "totals")
  BY <1>5, <1>6, <1>7, <1>11, <1>12 DEF WillRead, HeadIs, HasKind
<1> QED
  BY <1>6, <1>10, <1>13, <1>14 DEF s

LEMMA ReadOpens ==
  LET s == ReadScript
  IN Opens(s) /\ HeadIs(s, {"totals"}) /\ HasKind(s, "totals") /\ ~HasKind(s, "create")
<1> DEFINE s == ReadScript
<1>1. /\ s[1] = Do("totals") /\ s[2] = Do("dates") /\ s[3] = Do("ownerships") /\ s[4] = Do("project")
      /\ s[5] = Do("inspect") /\ s[6] = Do("reply")
  BY SMTT(60) DEF Recalculate, ReadScript
<1>2. DOMAIN s = 1..6
  BY SMTT(60) DEF Recalculate, ReadScript
<1>3. s \in Seq({s[i] : i \in 1..6})
  BY SMTT(60) DEF Recalculate, ReadScript
<1> HIDE DEF s
<1>4. IsScript(s)
  BY <1>3, SeqIsScript
<1>5. DOMAIN s = {1, 2, 3, 4, 5, 6}
  BY <1>2
<1>6. /\ s[1][1] = "totals" /\ s[2][1] = "dates" /\ s[3][1] = "ownerships" /\ s[4][1] = "project"
      /\ s[5][1] = "inspect" /\ s[6][1] = "reply"
  BY <1>1 DEF Do
<1>7. ASSUME NEW i \in DOMAIN s PROVE SoundAt(s, i)
  BY <1>5, <1>6 DEF SoundAt, Hows
<1>8. \A i \in DOMAIN s : s[i][1] \in {"totals", "dates", "ownerships", "project", "inspect", "reply"}
  BY <1>5, <1>6
<1>9. 1 \in DOMAIN s /\ s # <<>>
  BY <1>5
<1>10. Head(s) = s[1]
  BY <1>4, <1>9, RestOfScript
<1>11. Opens(s)
  BY <1>4, <1>7, <1>8, <1>9 DEF Opens, Sound, PaidLater, PaidAt, Paying, Evaluations, Hows
<1>12. HeadIs(s, {"totals"}) /\ HasKind(s, "totals") /\ ~HasKind(s, "create")
  BY <1>6, <1>8, <1>9, <1>10 DEF HeadIs, HasKind
<1> QED
  BY <1>11, <1>12 DEF s

LEMMA UpgradeOpens ==
  /\ LET s == Recalculate \o <<<<"migrate", None>>>> \o <<Do("reply")>>
     IN Opens(s) /\ HeadIs(s, {"totals"}) /\ ~HasKind(s, "create")
  /\ LET s == <<>> \o <<Do("reply")>> IN Opens(s) /\ ~HasKind(s, "create")
  /\ LET s == Backfill(None) \o <<Do("reply")>> IN Opens(s) /\ ~HasKind(s, "create")
<1>1. LET s == Recalculate \o <<<<"migrate", None>>>> \o <<Do("reply")>>
      IN Opens(s) /\ HeadIs(s, {"totals"}) /\ ~HasKind(s, "create")
  <2> DEFINE s == Recalculate \o <<<<"migrate", None>>>> \o <<Do("reply")>>
  <2>1. /\ s[1] = Do("totals") /\ s[2] = Do("dates") /\ s[3] = Do("ownerships") /\ s[4] = Do("project")
        /\ s[5] = <<"migrate", None>> /\ s[6] = Do("reply")
    BY SMTT(60) DEF Recalculate
  <2>2. DOMAIN s = 1..6
    BY SMTT(60) DEF Recalculate
  <2>3. s \in Seq({s[i] : i \in 1..6})
    BY SMTT(60) DEF Recalculate
  <2> HIDE DEF s
  <2>4. IsScript(s)
    BY <2>3, SeqIsScript
  <2>5. DOMAIN s = {1, 2, 3, 4, 5, 6}
    BY <2>2
  <2>6. /\ s[1][1] = "totals" /\ s[2][1] = "dates" /\ s[3][1] = "ownerships" /\ s[4][1] = "project"
        /\ s[5][1] = "migrate" /\ s[6][1] = "reply"
    BY <2>1 DEF Do
  <2>7. ASSUME NEW i \in DOMAIN s PROVE SoundAt(s, i)
    BY <2>5, <2>6 DEF SoundAt, Hows
  <2>8. \A i \in DOMAIN s : s[i][1] \in {"totals", "dates", "ownerships", "project", "migrate", "reply"}
    BY <2>5, <2>6
  <2>9. 1 \in DOMAIN s /\ s # <<>>
    BY <2>5
  <2>10. Head(s) = s[1]
    BY <2>4, <2>9, RestOfScript
  <2>11. Opens(s)
    BY <2>4, <2>7, <2>8, <2>9 DEF Opens, Sound, PaidLater, PaidAt, Paying, Evaluations, Hows
  <2>12. HeadIs(s, {"totals"}) /\ ~HasKind(s, "create")
    BY <2>6, <2>8, <2>9, <2>10 DEF HeadIs, HasKind
  <2> QED
    BY <2>11, <2>12 DEF s
<1>2. LET s == <<>> \o <<Do("reply")>> IN Opens(s) /\ ~HasKind(s, "create")
  <2> DEFINE s == <<>> \o <<Do("reply")>>
  <2>1. s[1] = Do("reply") /\ DOMAIN s = {1} /\ s \in Seq({Do("reply")})
    OBVIOUS
  <2> HIDE DEF s
  <2>2. IsScript(s)
    BY <2>1, SeqIsScript
  <2>3. s[1][1] = "reply" /\ s # <<>>
    BY <2>1 DEF Do
  <2>4. Opens(s) /\ ~HasKind(s, "create")
    BY <2>1, <2>2, <2>3
       DEF Opens, HasKind, Sound, SoundAt, PaidLater, PaidAt, Paying, Evaluations, Hows
  <2> QED
    BY <2>4 DEF s
<1>3. LET s == Backfill(None) \o <<Do("reply")>> IN Opens(s) /\ ~HasKind(s, "create")
  <2> DEFINE r == Backfill(None)
             e == <<Do("reply")>>
             t == <<Do("reply"), Do("reply")>>
  <2>1. /\ IsScript(r) /\ Sound(r) /\ PaidLater(r) /\ r # <<>>
        /\ \A i \in DOMAIN r : r[i][1] \notin {"create", "rank"}
        /\ \A i \in DOMAIN r : r[i][1] \notin Hows
    BY PushesBackfill DEF Pushes
  <2>2. e[1][1] = "reply" /\ DOMAIN e = {1} /\ e \in Seq({Do("reply")}) /\ Len(e) = 1
    BY DEF Do
  <2>3. t[1][1] = "reply" /\ t[2][1] = "reply" /\ DOMAIN t = {1, 2} /\ t \in Seq({Do("reply")}) /\ t # <<>>
    BY DEF Do
  <2>4. Tail(t) = e
    OBVIOUS
  <2>5. Pushed(r, t) = r \o e
    BY <2>4, Zenon DEF Pushed
  <2> HIDE DEF r, e, t
  <2>6. IsScript(t)
    BY <2>3, SeqIsScript
  <2>7. Sound(t) /\ PaidLater(t)
    BY <2>3 DEF Sound, SoundAt, PaidLater, PaidAt, Paying, Evaluations, Hows
  <2>8. IsScript(Pushed(r, t)) /\ Sound(Pushed(r, t)) /\ PaidLater(Pushed(r, t))
    BY <2>1, <2>3, <2>6, <2>7, PushFacts, SoundPush, PaidPush
  <2>9. \A c : HasKind(Pushed(r, t), c) => HasKind(r, c) \/ HasKind(t, c)
    BY <2>1, <2>3, <2>6, AheadPush
  <2>10. ASSUME NEW i \in DOMAIN Pushed(r, t)
        PROVE  Pushed(r, t)[i][1] \notin Hows \cup {"create"}
    <3>1. HasKind(Pushed(r, t), Pushed(r, t)[i][1])
      BY DEF HasKind
    <3>2. ASSUME NEW c, HasKind(r, c) \/ HasKind(t, c) PROVE c \notin Hows \cup {"create"}
      BY <2>1, <2>3, <3>2 DEF HasKind, Hows
    <3> QED
      BY <2>9, <3>1, <3>2
  <2>11. Pushed(r, t) # <<>>
    <3>1. IsScript(e) /\ Len(r) \in Nat /\ Len(e) = 1
      BY <2>2, SeqIsScript, <2>1, ScriptFacts
    <3>2. Len(r \o e) = Len(r) + Len(e)
      BY <2>1, <3>1, JoinScripts
    <3>3. Len(Pushed(r, t)) # 0
      BY <2>5, <3>1, <3>2
    <3> QED
      BY <3>3, EmptySeq
  <2>12. Opens(Pushed(r, t)) /\ ~HasKind(Pushed(r, t), "create")
    BY <2>8, <2>10, <2>11 DEF Opens, HasKind
  <2> QED
    BY <2>12, <2>5 DEF r, e
<1> QED
  BY <1>1, <1>2, <1>3

-----------------------------------------------------------------------------
(* One call: what it leaves of the script, what the request knows then,    *)
(* what it wrote and what it leads to.                                     *)

LR(l) == LongestRun(DaysOf(l))
Deserved(b, l) == Reached(b, l, LR(l))

Goes(p, k, s) ==
  /\ At(p, k) /\ Pushes(k, s)
  /\ \A q \in Processes \ {p} : frame'[q] = frame[q]
  /\ frame'[p].todo = Pushed(s, frame[p].todo)
  /\ frame'[p].op = frame[p].op /\ frame'[p].owed = frame[p].owed /\ frame'[p].clean = frame[p].clean
  /\ UNCHANGED <<done, unsettled, unrewarded, unranked>>

\* The recalculation returned: its reads are forgotten.
Answers(k, s) == k = "enroll" \/ (k = "project" /\ s = <<>>)
Knows(p, k, s) ==
  /\ frame'[p].total =
       IF k = "totals" THEN ledger ELSE IF Answers(k, s) THEN {} ELSE frame[p].total
  /\ frame'[p].longest =
       IF k = "dates" THEN LR(ledger) ELSE IF Answers(k, s) THEN 0 ELSE frame[p].longest
  /\ frame'[p].badges =
       IF k = "ownerships" THEN Cardinality(Owned) ELSE IF Answers(k, s) THEN 0 ELSE frame[p].badges
  /\ IF Answers(k, s)
     THEN frame'[p].seen.xp = XpOf(profile'.shows) /\ frame'[p].seen.longest = profile'.longest
     ELSE frame'[p].seen \in {frame[p].seen, Unseen}
  /\ k \notin {"reconcile", "repaired"} \cup Evaluations => frame'[p].made = frame[p].made
  /\ frame'[p].base = IF k = "create" THEN frame[p].seen.xp ELSE frame[p].base

Writes(p, k, s) ==
  /\ ledger' = CASE k = "create" -> ledger \cup {Activity(Arg(p))}
                 [] k = "day" -> ledger \cup {Day(entry[Arg(p)].day)}
                 [] k = "medal" -> ledger \cup {Badge(Arg(p))}
                 [] OTHER -> ledger
  /\ IF k = "create" THEN BookActivity(Arg(p), today, frame[p].seen.xp) ELSE entry' = entry
  /\ owned' = IF k \in Hows THEN [owned EXCEPT ![Arg(p)] = IF @ = "no" THEN k ELSE @] ELSE owned
  /\ events' = IF k = "event" THEN events \cup {Arg(p)} ELSE events
  /\ notices' = IF k = "notify" THEN notices \cup {Arg(p)} ELSE notices
  /\ IF k = "medal"
     THEN silent' = (silent \/ (frame[p].base = Unset /\ Badge(Arg(p)) \notin ledger
                                  /\ BadgeXp[Arg(p)] > 0))
     ELSE silent' = silent

Projects(p, k, s) ==
  /\ profile' = IF \/ k = "project" /\ profile.exists /\ Newer(p)
                   \/ k = "enroll" /\ ~profile.exists
                THEN Projection(p)
                ELSE IF k = "stamp" THEN [profile EXCEPT !.current = TRUE] ELSE profile
  /\ k = "project" => s = IF profile.exists THEN <<>> ELSE <<Do("enroll")>>
  /\ k \in {"totals", "dates", "ownerships", "enroll", "restore"} => s = <<>>

Announced(p) ==
  <<"event", RankEvent(Rank(frame[p].seen.xp))>>
Leads(p, k, s) ==
  /\ \A i \in DOMAIN s :
       s[i][1] \in Hows => s[i][2] \in Badges /\ Reached(s[i][2], ledger, frame[p].seen.longest)
  /\ k \in Evaluations => \A b \in Badges :
       Reached(b, ledger, frame[p].seen.longest) => \E how \in Hows : HasCall(s, <<how, b>>)
  /\ k = "repaired" /\ frame[p].made => WillRead(s, Evaluations) /\ HasKind(s, "totals")
  /\ k = "tell" /\ owned[Arg(p)] = "live" => HasCall(s, <<"event", Badge(Arg(p))>>)
  /\ k = "rank" /\ Rank(BaseOf(p, Arg(p))) # Rank(frame[p].seen.xp)
                /\ frame[p].seen.xp > BaseOf(p, Arg(p)) => HasCall(s, Announced(p))

Moves(p, k, s) == Goes(p, k, s) /\ Knows(p, k, s) /\ Writes(p, k, s) /\ Projects(p, k, s) /\ Leads(p, k, s)

LEMMA ThenGoes ==
  ASSUME AchievementsInv, NEW p \in Processes, NEW k, At(p, k), NEW f, NEW s, Then(p, f, s),
         DOMAIN f = FrameFields, f.todo = frame[p].todo
  PROVE  /\ \A q \in Processes \ {p} : frame'[q] = frame[q]
         /\ frame'[p].todo = Pushed(s, frame[p].todo)
         /\ \A x \in FrameFields \ {"todo"} : frame'[p][x] = f[x]
<1>1. DOMAIN frame = Processes
  BY DEF AchievementsInv, FramesHold
<1> DEFINE g == [f EXCEPT !.todo = s \o Tail(@)]
<1>2. frame' = [frame EXCEPT ![p] = g]
  BY DEF Then
<1>3. /\ g.todo = s \o Tail(f.todo)
      /\ \A x \in FrameFields \ {"todo"} : g[x] = f[x]
  BY DEF FrameFields
<1> HIDE DEF g
<1>4. frame'[p] = g /\ \A q \in Processes \ {p} : frame'[q] = frame[q]
  BY <1>1, <1>2
<1> QED
  BY <1>3, <1>4 DEF Pushed

\* A call of which the request keeps nothing.
LEMMA PlainGoes ==
  ASSUME AchievementsInv, NEW p \in Processes, NEW k, At(p, k), NEW s, Then(p, frame[p], s),
         Pushes(k, s), UNCHANGED <<done, unsettled, unrewarded, unranked>>,
         ~Answers(k, s), k \notin {"totals", "dates", "ownerships", "create"}
  PROVE  Goes(p, k, s) /\ Knows(p, k, s)
<1>1. DOMAIN frame[p] = FrameFields
  BY AtFacts
<1>2. /\ \A q \in Processes \ {p} : frame'[q] = frame[q]
      /\ frame'[p].todo = Pushed(s, frame[p].todo)
      /\ \A x \in FrameFields \ {"todo"} : frame'[p][x] = frame[p][x]
  BY <1>1, ThenGoes
<1>3. /\ frame'[p].op = frame[p].op /\ frame'[p].owed = frame[p].owed
      /\ frame'[p].clean = frame[p].clean /\ frame'[p].total = frame[p].total
      /\ frame'[p].longest = frame[p].longest /\ frame'[p].badges = frame[p].badges
      /\ frame'[p].seen = frame[p].seen /\ frame'[p].made = frame[p].made
      /\ frame'[p].base = frame[p].base
  BY <1>2 DEF FrameFields
<1> QED
  BY <1>2, <1>3 DEF Goes, Knows

LEMMA NoHows ==
  ASSUME NEW p, NEW k, NEW s, \A i \in DOMAIN s : s[i][1] \notin Hows,
         k \notin Evaluations \cup {"repaired", "tell", "rank"}
  PROVE  Leads(p, k, s)
BY DEF Leads

LEMMA ReadsMove ==
  ASSUME AchievementsInv, NEW p \in Processes, ReadTotals(p) \/ ReadDates(p) \/ CountOwnerships(p)
  PROVE  \E k : Moves(p, k, <<>>)
<1>1. /\ UNCHANGED <<done, unsettled, unrewarded, unranked>>
      /\ UNCHANGED <<ledger, entry, owned, events, notices, silent, profile>>
  BY DEF ReadTotals, ReadDates, CountOwnerships, context, store, history
<1>2. ASSUME NEW k, At(p, k) PROVE DOMAIN frame[p] = FrameFields
  BY <1>2, AtFacts
<1>3. ASSUME NEW k PROVE Pushes(k, <<>>) /\ \A i \in DOMAIN <<>> : <<>>[i][1] \notin Hows
  BY PushesNothing
<1>4. CASE ReadTotals(p)
  <2> DEFINE f == [frame[p] EXCEPT !.total = ledger]
  <2>1. At(p, "totals") /\ Then(p, f, <<>>)
    BY <1>4 DEF ReadTotals
  <2>2. /\ DOMAIN f = FrameFields /\ f.todo = frame[p].todo /\ f.total = ledger
        /\ \A x \in FrameFields \ {"total"} : f[x] = frame[p][x]
    BY <1>2, <2>1 DEF FrameFields
  <2> HIDE DEF f
  <2>3. /\ \A q \in Processes \ {p} : frame'[q] = frame[q]
        /\ frame'[p].todo = Pushed(<<>>, frame[p].todo)
        /\ \A x \in FrameFields \ {"todo"} : frame'[p][x] = f[x]
    BY <2>1, <2>2, ThenGoes
  <2>4. Goes(p, "totals", <<>>) /\ Knows(p, "totals", <<>>)
    BY <1>1, <1>3, <2>1, <2>2, <2>3 DEF FrameFields, Goes, Knows, Answers, Evaluations
  <2>5. Writes(p, "totals", <<>>) /\ Projects(p, "totals", <<>>) /\ Leads(p, "totals", <<>>)
    BY <1>1, <1>3, NoHows DEF Writes, Projects, Hows, Evaluations
  <2> QED
    BY <2>4, <2>5 DEF Moves
<1>5. CASE ReadDates(p)
  <2> DEFINE f == [frame[p] EXCEPT !.longest = LongestRun(DaysOf(ledger))]
  <2>1. At(p, "dates") /\ Then(p, f, <<>>)
    BY <1>5 DEF ReadDates
  <2>2. /\ DOMAIN f = FrameFields /\ f.todo = frame[p].todo /\ f.longest = LR(ledger)
        /\ \A x \in FrameFields \ {"longest"} : f[x] = frame[p][x]
    BY <1>2, <2>1 DEF FrameFields, LR
  <2> HIDE DEF f
  <2>3. /\ \A q \in Processes \ {p} : frame'[q] = frame[q]
        /\ frame'[p].todo = Pushed(<<>>, frame[p].todo)
        /\ \A x \in FrameFields \ {"todo"} : frame'[p][x] = f[x]
    BY <2>1, <2>2, ThenGoes
  <2>4. Goes(p, "dates", <<>>) /\ Knows(p, "dates", <<>>)
    BY <1>1, <1>3, <2>1, <2>2, <2>3 DEF FrameFields, Goes, Knows, Answers, Evaluations
  <2>5. Writes(p, "dates", <<>>) /\ Projects(p, "dates", <<>>) /\ Leads(p, "dates", <<>>)
    BY <1>1, <1>3, NoHows DEF Writes, Projects, Hows, Evaluations
  <2> QED
    BY <2>4, <2>5 DEF Moves
<1>6. CASE CountOwnerships(p)
  <2> DEFINE f == [frame[p] EXCEPT !.badges = Cardinality(Owned)]
  <2>1. At(p, "ownerships") /\ Then(p, f, <<>>)
    BY <1>6 DEF CountOwnerships
  <2>2. /\ DOMAIN f = FrameFields /\ f.todo = frame[p].todo /\ f.badges = Cardinality(Owned)
        /\ \A x \in FrameFields \ {"badges"} : f[x] = frame[p][x]
    BY <1>2, <2>1 DEF FrameFields
  <2> HIDE DEF f
  <2>3. /\ \A q \in Processes \ {p} : frame'[q] = frame[q]
        /\ frame'[p].todo = Pushed(<<>>, frame[p].todo)
        /\ \A x \in FrameFields \ {"todo"} : frame'[p][x] = f[x]
    BY <2>1, <2>2, ThenGoes
  <2>4. Goes(p, "ownerships", <<>>) /\ Knows(p, "ownerships", <<>>)
    BY <1>1, <1>3, <2>1, <2>2, <2>3 DEF FrameFields, Goes, Knows, Answers, Evaluations
  <2>5. Writes(p, "ownerships", <<>>) /\ Projects(p, "ownerships", <<>>) /\ Leads(p, "ownerships", <<>>)
    BY <1>1, <1>3, NoHows DEF Writes, Projects, Hows, Evaluations
  <2> QED
    BY <2>4, <2>5 DEF Moves
<1> QED
  BY <1>4, <1>5, <1>6

LEMMA ProjectMoves ==
  ASSUME AchievementsInv, NEW p \in Processes, Project(p) \/ Enroll(p)
  PROVE  \E k, s : Moves(p, k, s)
<1>1. /\ UNCHANGED <<done, unsettled, unrewarded, unranked>>
      /\ UNCHANGED <<ledger, entry, owned, events, notices, silent>>
  BY DEF Project, Enroll, context, history
<1>2. ASSUME NEW k, At(p, k) PROVE DOMAIN frame[p] = FrameFields
  BY <1>2, AtFacts
<1>3. ASSUME NEW k PROVE Pushes(k, <<>>) /\ \A i \in DOMAIN <<>> : <<>>[i][1] \notin Hows
  BY PushesNothing
<1>4. ASSUME NEW k \in {"project", "enroll"}, At(p, k), Then(p, Returned(frame[p], profile'), <<>>)
      PROVE  Goes(p, k, <<>>) /\ Knows(p, k, <<>>) /\ Writes(p, k, <<>>) /\ Leads(p, k, <<>>)
  <2> DEFINE f == Returned(frame[p], profile')
  <2>1. /\ DOMAIN f = FrameFields /\ f.todo = frame[p].todo
        /\ f.total = {} /\ f.longest = 0 /\ f.badges = 0
        /\ f.seen.xp = XpOf(profile'.shows) /\ f.seen.longest = profile'.longest
        /\ \A x \in FrameFields \ {"total", "longest", "badges", "seen"} : f[x] = frame[p][x]
    BY <1>2, <1>4 DEF FrameFields, Returned
  <2>2. Then(p, f, <<>>)
    BY <1>4
  <2> HIDE DEF f
  <2>3. /\ \A q \in Processes \ {p} : frame'[q] = frame[q]
        /\ frame'[p].todo = Pushed(<<>>, frame[p].todo)
        /\ \A x \in FrameFields \ {"todo"} : frame'[p][x] = f[x]
    BY <1>4, <2>1, <2>2, ThenGoes
  <2>4. Goes(p, k, <<>>) /\ Knows(p, k, <<>>)
    BY <1>1, <1>3, <1>4, <2>1, <2>3 DEF FrameFields, Goes, Knows, Answers, Evaluations
  <2>5. Writes(p, k, <<>>) /\ Leads(p, k, <<>>)
    BY <1>1, <1>3, <1>4, NoHows DEF Writes, Hows, Evaluations
  <2> QED
    BY <2>4, <2>5
<1>5. CASE Project(p) /\ profile.exists /\ Newer(p)
  <2>1. At(p, "project") /\ Then(p, Returned(frame[p], profile'), <<>>) /\ profile' = Projection(p)
    BY <1>5 DEF Project
  <2>2. Projects(p, "project", <<>>)
    BY <1>5, <2>1 DEF Projects
  <2> QED
    BY <1>4, <2>1, <2>2 DEF Moves
<1>6. CASE Project(p) /\ profile.exists /\ ~Newer(p)
  <2>1. At(p, "project") /\ Then(p, Returned(frame[p], profile'), <<>>) /\ profile' = profile
    BY <1>6 DEF Project
  <2>2. Projects(p, "project", <<>>)
    BY <1>6, <2>1 DEF Projects
  <2> QED
    BY <1>4, <2>1, <2>2 DEF Moves
<1>7. CASE Project(p) /\ ~profile.exists
  <2> DEFINE s == <<Do("enroll")>>
  <2>1. At(p, "project") /\ Then(p, frame[p], s) /\ profile' = profile
    BY <1>7 DEF Project
  <2>2. Pushes("project", s) /\ \A i \in DOMAIN s : s[i][1] \notin Hows
    BY PushesEnroll DEF Do, Hows
  <2>3. s # <<>>
    OBVIOUS
  <2>4. Projects(p, "project", s)
    BY <1>7, <2>1 DEF Projects
  <2> HIDE DEF s
  <2>5. Goes(p, "project", s) /\ Knows(p, "project", s)
    BY <1>1, <2>1, <2>2, <2>3, PlainGoes DEF Answers
  <2>6. Writes(p, "project", s) /\ Leads(p, "project", s)
    BY <1>1, <2>2, NoHows DEF Writes, Hows, Evaluations
  <2> QED
    BY <2>4, <2>5, <2>6 DEF Moves
<1>8. CASE Enroll(p)
  <2>1. /\ At(p, "enroll") /\ Then(p, Returned(frame[p], profile'), <<>>)
        /\ profile' = IF profile.exists THEN profile ELSE Projection(p)
    BY <1>8 DEF Enroll
  <2>2. Projects(p, "enroll", <<>>)
    BY <2>1 DEF Projects
  <2> QED
    BY <1>4, <2>1, <2>2 DEF Moves
<1> QED
  BY <1>5, <1>6, <1>7, <1>8

\* A call that may put others in front, and that makes the request forget what it saw.
LEMMA ForgetfulGoes ==
  ASSUME AchievementsInv, NEW p \in Processes, NEW k, At(p, k), NEW s, NEW f, Then(p, f, s),
         DOMAIN f = FrameFields, f.seen \in {frame[p].seen, Unseen},
         k \notin {"reconcile", "repaired"} \cup Evaluations => f.made = frame[p].made,
         \A x \in FrameFields \ {"seen", "made", "left"} : f[x] = frame[p][x],
         Pushes(k, s), UNCHANGED <<done, unsettled, unrewarded, unranked>>,
         k \notin {"totals", "dates", "ownerships", "create", "project", "enroll"}
  PROVE  Goes(p, k, s) /\ Knows(p, k, s)
<1>1. f.todo = frame[p].todo
  BY DEF FrameFields
<1>2. /\ \A q \in Processes \ {p} : frame'[q] = frame[q]
      /\ frame'[p].todo = Pushed(s, frame[p].todo)
      /\ \A x \in FrameFields \ {"todo"} : frame'[p][x] = f[x]
  BY <1>1, ThenGoes
<1>3. /\ frame'[p].op = frame[p].op /\ frame'[p].owed = frame[p].owed
      /\ frame'[p].clean = frame[p].clean /\ frame'[p].total = frame[p].total
      /\ frame'[p].longest = frame[p].longest /\ frame'[p].badges = frame[p].badges
      /\ frame'[p].seen = f.seen /\ frame'[p].made = f.made
      /\ frame'[p].base = frame[p].base
  BY <1>2 DEF FrameFields
<1> QED
  BY <1>2, <1>3 DEF Goes, Knows, Answers

LEMMA BackfillsMove ==
  ASSUME AchievementsInv, NEW p \in Processes,
         Migrate(p) \/ Inspect(p) \/ Reconcile(p) \/ Restored(p) \/ Repaired(p) \/ Stamp(p)
  PROVE  \E k, s : Moves(p, k, s)
<1>1. /\ UNCHANGED <<done, unsettled, unrewarded, unranked>>
      /\ UNCHANGED <<ledger, entry, owned, events, notices, silent>>
  BY DEF Migrate, Inspect, Reconcile, Restored, Repaired, Stamp, context, store, history
<1>2. ASSUME NEW k, At(p, k) PROVE DOMAIN frame[p] = FrameFields
  BY <1>2, AtFacts
<1>3. ASSUME NEW k PROVE Pushes(k, <<>>) /\ \A i \in DOMAIN <<>> : <<>>[i][1] \notin Hows
  BY PushesNothing
<1>4. ASSUME NEW k \in {"migrate", "inspect", "reconcile", "restore", "stamp"}, NEW s,
             \A i \in DOMAIN s : s[i][1] \notin Hows, k \in {"restore"} => s = <<>>,
             profile' = IF k = "stamp" THEN [profile EXCEPT !.current = TRUE] ELSE profile
      PROVE  Writes(p, k, s) /\ Projects(p, k, s) /\ Leads(p, k, s)
  BY <1>1, <1>4, NoHows DEF Writes, Projects, Hows, Evaluations
<1>5. CASE Migrate(p) \/ Inspect(p)
  <2> DEFINE f == [frame[p] EXCEPT !.seen = Unseen]
             k == IF Migrate(p) THEN "migrate" ELSE "inspect"
  <2>1. k \in {"migrate", "inspect"} /\ At(p, k) /\ profile' = profile
    BY <1>5 DEF Migrate, Inspect, store
  <2>2. DOMAIN frame[p] = FrameFields
    BY <1>2, <2>1
  <2>3. /\ DOMAIN f = FrameFields /\ f.seen = Unseen /\ f.made = frame[p].made
        /\ \A x \in FrameFields \ {"seen", "made", "left"} : f[x] = frame[p][x]
    BY <2>2 DEF FrameFields
  <2>4. CASE Migrate(p) /\ frame[p].seen.current
    <3>1. At(p, "migrate") /\ Then(p, frame[p], <<>>)
      BY <2>4 DEF Migrate, Return
    <3>2. Goes(p, "migrate", <<>>) /\ Knows(p, "migrate", <<>>)
      BY <1>1, <1>3, <3>1, PlainGoes DEF Answers
    <3> QED
      BY <1>3, <1>4, <2>1, <3>2 DEF Moves
  <2>5. CASE ~(Migrate(p) /\ frame[p].seen.current)
    <3>1. PICK s : /\ Then(p, f, s)
                   /\ Pushes(k, s) /\ \A i \in DOMAIN s : s[i][1] \notin Hows
      <4>1. CASE Migrate(p)
        <5>1. Then(p, f, Backfill(Arg(p))) /\ k = "migrate"
          BY <2>5, <4>1 DEF Migrate
        <5> QED
          BY <5>1, PushesBackfill
      <4>2. CASE ~Migrate(p)
        <5>1. Inspect(p) /\ k = "inspect"
          BY <1>5, <4>2
        <5>2. CASE frame[p].seen.current
          <6>1. Then(p, f, <<<<"reconcile", None>>, Do("restore"), Do("repaired")>>)
            BY <5>1, <5>2 DEF Inspect
          <6> QED
            BY <5>1, <6>1, PushesRepair
        <5>3. CASE ~frame[p].seen.current
          <6>1. Then(p, f, Backfill(None))
            BY <5>1, <5>3 DEF Inspect
          <6> QED
            BY <5>1, <6>1, PushesBackfill
        <5> QED
          BY <5>2, <5>3
      <4> QED
        BY <4>1, <4>2
    <3> HIDE DEF f, k
    <3>2. Goes(p, k, s) /\ Knows(p, k, s)
      BY <1>1, <2>1, <2>3, <3>1, ForgetfulGoes DEF Evaluations
    <3> QED
      BY <1>4, <2>1, <3>1, <3>2 DEF Moves
  <2> QED
    BY <2>4, <2>5
<1>6. CASE Reconcile(p)
  <2> DEFINE f == [frame[p] EXCEPT !.left = Rewarded(Arg(p)), !.made = FALSE]
  <2>1. At(p, "reconcile") /\ Then(p, f, <<>>) /\ profile' = profile
    BY <1>6 DEF Reconcile, store
  <2>2. /\ DOMAIN f = FrameFields /\ f.seen = frame[p].seen
        /\ \A x \in FrameFields \ {"seen", "made", "left"} : f[x] = frame[p][x]
    BY <1>2, <2>1 DEF FrameFields
  <2> HIDE DEF f
  <2>3. Goes(p, "reconcile", <<>>) /\ Knows(p, "reconcile", <<>>)
    BY <1>1, <1>3, <2>1, <2>2, ForgetfulGoes
  <2> QED
    BY <1>3, <1>4, <2>1, <2>3 DEF Moves
<1>7. CASE Restored(p) \/ Stamp(p)
  <2>1. PICK k \in {"restore", "stamp"} :
          /\ At(p, k) /\ Then(p, frame[p], <<>>)
          /\ profile' = IF k = "stamp" THEN [profile EXCEPT !.current = TRUE] ELSE profile
    <3>1. CASE Restored(p)
      BY <3>1 DEF Restored, Return, store
    <3>2. CASE Stamp(p)
      BY <3>2 DEF Stamp, Return
    <3> QED
      BY <1>7, <3>1, <3>2
  <2>2. Goes(p, k, <<>>) /\ Knows(p, k, <<>>)
    BY <1>1, <1>3, <2>1, PlainGoes DEF Answers
  <2> QED
    BY <1>3, <1>4, <2>1, <2>2 DEF Moves
<1>8. CASE Repaired(p)
  <2> DEFINE f == [frame[p] EXCEPT !.made = FALSE]
             s == IF frame[p].made THEN Recalculate \o <<Do("badgesLive")>> \o Recalculate ELSE <<>>
  <2>1. At(p, "repaired") /\ Then(p, f, s) /\ profile' = profile
    BY <1>8 DEF Repaired, store
  <2>2. /\ DOMAIN f = FrameFields /\ f.seen = frame[p].seen
        /\ \A x \in FrameFields \ {"seen", "made", "left"} : f[x] = frame[p][x]
    BY <1>2, <2>1 DEF FrameFields
  <2>3. /\ Pushes("repaired", s) /\ \A i \in DOMAIN s : s[i][1] \notin Hows
        /\ frame[p].made => WillRead(s, Evaluations) /\ HasKind(s, "totals")
    BY <1>3, PushesReevaluation
  <2> HIDE DEF f, s
  <2>4. Goes(p, "repaired", s) /\ Knows(p, "repaired", s)
    BY <1>1, <2>1, <2>2, <2>3, ForgetfulGoes
  <2>5. Writes(p, "repaired", s) /\ Projects(p, "repaired", s)
    BY <1>1, <2>1 DEF Writes, Projects, Hows
  <2>6. Leads(p, "repaired", s)
    BY <2>3 DEF Leads, Evaluations
  <2> QED
    BY <2>4, <2>5, <2>6 DEF Moves
<1> QED
  BY <1>5, <1>6, <1>7, <1>8

LEMMA AwardMoves ==
  ASSUME AchievementsInv, NEW p \in Processes, CreateEntry(p) \/ CreateDay(p) \/ CompareRanks(p)
  PROVE  \E k, s : Moves(p, k, s)
<1>1. /\ UNCHANGED <<done, unsettled, unrewarded, unranked>>
      /\ UNCHANGED <<profile, owned, events, notices, silent>>
  BY DEF CreateEntry, CreateDay, CompareRanks, context, store, history
<1>2. ASSUME NEW k, At(p, k) PROVE DOMAIN frame[p] = FrameFields
  BY <1>2, AtFacts
<1>3. ASSUME NEW k PROVE Pushes(k, <<>>) /\ \A i \in DOMAIN <<>> : <<>>[i][1] \notin Hows
  BY PushesNothing
<1>4. CASE CreateEntry(p)
  <2> DEFINE f == [frame[p] EXCEPT !.seen = Unseen, !.base = frame[p].seen.xp]
  <2>1. At(p, "create") /\ Then(p, f, <<>>) /\ BookActivity(Arg(p), today, frame[p].seen.xp)
    BY <1>4 DEF CreateEntry
  <2>2. /\ DOMAIN f = FrameFields /\ f.todo = frame[p].todo
        /\ f.seen = Unseen /\ f.base = frame[p].seen.xp
        /\ \A x \in FrameFields \ {"seen", "base"} : f[x] = frame[p][x]
    BY <1>2, <2>1 DEF FrameFields
  <2> HIDE DEF f
  <2>3. /\ \A q \in Processes \ {p} : frame'[q] = frame[q]
        /\ frame'[p].todo = Pushed(<<>>, frame[p].todo)
        /\ \A x \in FrameFields \ {"todo"} : frame'[p][x] = f[x]
    BY <2>1, <2>2, ThenGoes
  <2>4. Goes(p, "create", <<>>) /\ Knows(p, "create", <<>>)
    BY <1>1, <1>3, <2>1, <2>2, <2>3 DEF FrameFields, Goes, Knows, Answers, Evaluations
  <2>5. ledger' = ledger \cup {Activity(Arg(p))}
    BY <2>1 DEF BookActivity, Book
  <2>6. Writes(p, "create", <<>>) /\ Projects(p, "create", <<>>) /\ Leads(p, "create", <<>>)
    BY <1>1, <1>3, <2>1, <2>5, NoHows DEF Writes, Projects, Hows, Evaluations
  <2> QED
    BY <2>4, <2>6 DEF Moves
<1>5. CASE CreateDay(p)
  <2>1. /\ At(p, "day") /\ Then(p, frame[p], <<>>) /\ ledger' = ledger \cup {Day(entry[Arg(p)].day)}
        /\ entry' = entry
    BY <1>5 DEF CreateDay, Return
  <2>2. Goes(p, "day", <<>>) /\ Knows(p, "day", <<>>)
    BY <1>1, <1>3, <2>1, PlainGoes DEF Answers
  <2>3. Writes(p, "day", <<>>) /\ Projects(p, "day", <<>>) /\ Leads(p, "day", <<>>)
    BY <1>1, <1>3, <2>1, NoHows DEF Writes, Projects, Hows, Evaluations
  <2> QED
    BY <2>2, <2>3 DEF Moves
<1>6. CASE CompareRanks(p)
  <2> DEFINE before == BaseOf(p, Arg(p))
             now == frame[p].seen.xp
             rises == Rank(before) # Rank(now) /\ now > before
             s == IF rises
                  THEN <<<<"event", RankEvent(Rank(now))>>, <<"notify", RankEvent(Rank(now))>>>>
                  ELSE <<>>
  <2>1. /\ At(p, "rank") /\ Then(p, frame[p], s) /\ UNCHANGED <<ledger, entry>>
    BY <1>6 DEF CompareRanks, store
  <2>2. /\ Pushes("rank", s) /\ \A i \in DOMAIN s : s[i][1] \notin Hows
        /\ rises => HasCall(s, Announced(p))
    BY <1>3, PushesAnnouncement DEF Announced
  <2> HIDE DEF s
  <2>3. Goes(p, "rank", s) /\ Knows(p, "rank", s)
    BY <1>1, <2>1, <2>2, PlainGoes DEF Answers
  <2>4. Writes(p, "rank", s) /\ Projects(p, "rank", s)
    BY <1>1, <2>1 DEF Writes, Projects, Hows
  <2>5. Leads(p, "rank", s)
    BY <2>2 DEF Leads, Evaluations
  <2> QED
    BY <2>3, <2>4, <2>5 DEF Moves
<1> QED
  BY <1>4, <1>5, <1>6

LEMMA EvaluationMoves ==
  ASSUME AchievementsInv, NEW p \in Processes, EvaluateLive(p) \/ EvaluateQuietly(p)
  PROVE  \E k, s : Moves(p, k, s)
<1>1. /\ UNCHANGED <<done, unsettled, unrewarded, unranked>>
      /\ UNCHANGED <<ledger, entry, profile, owned, events, notices, silent>>
  BY DEF EvaluateLive, EvaluateQuietly, context, store, history
<1>2. PICK k \in Evaluations, how \in Hows : At(p, k) /\ Evaluate(p, how)
  BY DEF EvaluateLive, EvaluateQuietly, Evaluations, Hows
<1> DEFINE B == {b \in Badges : Reached(b, ledger, frame[p].seen.longest)}
           f == [frame[p] EXCEPT !.seen = Unseen, !.made = FALSE]
           s == BadgeScript(how, SetToSeq(B))
<1>3. Then(p, f, s)
  BY <1>2 DEF Evaluate
<1>4. DOMAIN frame[p] = FrameFields
  BY <1>2, AtFacts
<1>5. /\ DOMAIN f = FrameFields /\ f.seen = Unseen
      /\ \A x \in FrameFields \ {"seen", "made", "left"} : f[x] = frame[p][x]
  BY <1>4 DEF FrameFields
<1>6. B \in SUBSET Badges /\ \A b : b \in B <=> b \in Badges /\ Reached(b, ledger, frame[p].seen.longest)
  OBVIOUS
<1> HIDE DEF f, B
<1>7. /\ Pushes(k, s) /\ \A b \in B : HasCall(s, <<how, b>>)
      /\ \A i \in DOMAIN s : s[i][1] \in Hows => s[i][2] \in B
  BY <1>6, PushesBadges
<1> HIDE DEF s
<1>8. k \in {"badgesLive", "badgesQuiet"}
  BY DEF Evaluations
<1>9. Goes(p, k, s) /\ Knows(p, k, s)
  BY <1>1, <1>2, <1>3, <1>5, <1>7, <1>8, ForgetfulGoes
<1>10. Writes(p, k, s) /\ Projects(p, k, s)
  BY <1>1, <1>8 DEF Writes, Projects, Hows
<1>11. Leads(p, k, s)
  BY <1>6, <1>7, <1>8 DEF Leads
<1> QED
  BY <1>9, <1>10, <1>11 DEF Moves

LEMMA BadgesMove ==
  ASSUME AchievementsInv, NEW p \in Processes, Own(p) \/ Medal(p) \/ Tell(p) \/ CreateEvent(p) \/ Notify(p)
  PROVE  \E k, s : Moves(p, k, s)
<1>1. UNCHANGED <<done, unsettled, unrewarded, unranked, entry, profile>>
  BY DEF Own, Medal, Tell, CreateEvent, Notify, context, store, history
<1>2. ASSUME NEW k PROVE Pushes(k, <<>>) /\ \A i \in DOMAIN <<>> : <<>>[i][1] \notin Hows
  BY PushesNothing
<1>3. CASE Own(p)
  <2>1. PICK k \in Hows :
          /\ At(p, k) /\ Then(p, frame[p], <<>>) /\ UNCHANGED <<ledger, events, notices, silent>>
          /\ owned' = [owned EXCEPT ![Arg(p)] = IF @ = "no" THEN k ELSE @]
    BY <1>3 DEF Own, Return, Hows, history
  <2>2. k \in {"live", "quiet"}
    BY DEF Hows
  <2>3. Goes(p, k, <<>>) /\ Knows(p, k, <<>>)
    BY <1>1, <1>2, <2>1, <2>2, PlainGoes DEF Answers
  <2>4. Writes(p, k, <<>>) /\ Projects(p, k, <<>>) /\ Leads(p, k, <<>>)
    BY <1>1, <1>2, <2>1, <2>2, NoHows DEF Writes, Projects, Evaluations
  <2> QED
    BY <2>3, <2>4 DEF Moves
<1>4. CASE Medal(p)
  <2>1. /\ At(p, "medal") /\ Then(p, frame[p], <<>>) /\ UNCHANGED <<owned, events, notices>>
        /\ ledger' = ledger \cup {Badge(Arg(p))}
        /\ silent' = (silent \/ (frame[p].base = Unset /\ Badge(Arg(p)) \notin ledger
                                   /\ BadgeXp[Arg(p)] > 0))
    BY <1>4 DEF Medal, Return, Book
  <2>2. Goes(p, "medal", <<>>) /\ Knows(p, "medal", <<>>)
    BY <1>1, <1>2, <2>1, PlainGoes DEF Answers
  <2>3. Writes(p, "medal", <<>>)
    BY <1>1, <2>1 DEF Writes, Hows
  <2>4. Projects(p, "medal", <<>>) /\ Leads(p, "medal", <<>>)
    BY <1>1, <1>2, NoHows DEF Projects, Evaluations
  <2> QED
    BY <2>2, <2>3, <2>4 DEF Moves
<1>5. CASE Tell(p)
  <2> DEFINE r == Badge(Arg(p))
             s == IF owned[Arg(p)] = "live"
                  THEN Recalculate \o <<<<"event", r>>, <<"notify", r>>>> ELSE <<>>
  <2>1. At(p, "tell") /\ Then(p, frame[p], s) /\ UNCHANGED <<ledger, owned, events, notices, silent>>
    BY <1>5 DEF Tell, store, history
  <2>2. /\ Pushes("tell", s) /\ \A i \in DOMAIN s : s[i][1] \notin Hows
        /\ owned[Arg(p)] = "live" => HasCall(s, <<"event", r>>)
    BY <1>2, PushesCelebration
  <2> HIDE DEF s
  <2>3. Goes(p, "tell", s) /\ Knows(p, "tell", s)
    BY <1>1, <2>1, <2>2, PlainGoes DEF Answers
  <2>4. Writes(p, "tell", s) /\ Projects(p, "tell", s)
    BY <1>1, <2>1 DEF Writes, Projects, Hows
  <2>5. Leads(p, "tell", s)
    BY <2>2 DEF Leads, Evaluations
  <2> QED
    BY <2>3, <2>4, <2>5 DEF Moves
<1>6. CASE CreateEvent(p)
  <2>1. /\ At(p, "event") /\ Then(p, frame[p], <<>>) /\ UNCHANGED <<ledger, owned, notices, silent>>
        /\ events' = events \cup {Arg(p)}
    BY <1>6 DEF CreateEvent, Return, history
  <2>2. Goes(p, "event", <<>>) /\ Knows(p, "event", <<>>)
    BY <1>1, <1>2, <2>1, PlainGoes DEF Answers
  <2>3. Writes(p, "event", <<>>) /\ Projects(p, "event", <<>>) /\ Leads(p, "event", <<>>)
    BY <1>1, <1>2, <2>1, NoHows DEF Writes, Projects, Hows, Evaluations
  <2> QED
    BY <2>2, <2>3 DEF Moves
<1>7. CASE Notify(p)
  <2>1. /\ At(p, "notify") /\ Then(p, frame[p], <<>>) /\ UNCHANGED <<ledger, owned, events, silent>>
        /\ notices' = notices \cup {Arg(p)}
    BY <1>7 DEF Notify, Return, history
  <2>2. Goes(p, "notify", <<>>) /\ Knows(p, "notify", <<>>)
    BY <1>1, <1>2, <2>1, PlainGoes DEF Answers
  <2>3. Writes(p, "notify", <<>>) /\ Projects(p, "notify", <<>>) /\ Leads(p, "notify", <<>>)
    BY <1>1, <1>2, <2>1, NoHows DEF Writes, Projects, Hows, Evaluations
  <2> QED
    BY <2>2, <2>3 DEF Moves
<1> QED
  BY <1>3, <1>4, <1>5, <1>6, <1>7

\* Every step of a request is a call that returns, its reply, or a booking of a repair.
LEMMA StepMoves ==
  ASSUME AchievementsInv, NEW p \in Processes, Step(p)
  PROVE  Reply(p) \/ Restore(p) \/ \E k, s : Moves(p, k, s)
BY ReadsMove, ProjectMoves, BackfillsMove, AwardMoves, EvaluationMoves, BadgesMove DEF Step

-----------------------------------------------------------------------------
(* What the scripts of the requests are, and what the requests know.       *)

AwardHolds(f, l) ==
  /\ RankLater(f.todo)
  /\ \E a \in Activities :
       /\ f.owed = {Activity(a)}
       /\ \A i \in DOMAIN f.todo : f.todo[i][1] \in {"create", "rank"} => f.todo[i][2] = a
  /\ \A i, j \in DOMAIN f.todo : f.todo[i][1] = "create" /\ f.todo[j][1] = "create" => i = j
  /\ f.base # Unset => ~HasKind(f.todo, "create") /\ f.owed \subseteq l
ScriptHolds(f, l) ==
  /\ Sound(f.todo) /\ PaidLater(f.todo)
  /\ f.op = "idle" => f.todo = <<>>
  /\ \A i \in DOMAIN f.todo :
       f.todo[i][1] \in Hows => f.todo[i][2] \in Badges /\ Deserved(f.todo[i][2], l)
  /\ IF f.op = "award" THEN AwardHolds(f, l) ELSE f.base = Unset /\ ~HasKind(f.todo, "create")
ScriptInv == \A p \in Processes : ScriptHolds(frame[p], ledger)

\* Nothing that was read is ahead of what is stored, and streaks are read after totals.
KnownHolds(f, l, n) ==
  /\ f.longest \in Nat /\ f.longest <= LR(l)
  /\ f.seen.longest \in Nat /\ f.seen.longest <= LR(l)
  /\ f.seen.xp \in Nat /\ f.seen.xp <= XpOf(l)
  /\ f.base \in Nat \cup {Unset} /\ f.base <= XpOf(l)
  /\ f.badges \in Nat /\ f.badges <= n
  /\ HeadIs(f.todo, {"dates"}) \/ f.longest >= LR(f.total)
Enrolling(f) ==
  f.todo = <<>> \/ HeadIs(f.todo, {"totals", "dates", "ownerships", "project", "enroll"})
ProfileKnown ==
  /\ profile.longest \in Nat /\ profile.longest <= LR(ledger) /\ profile.longest >= LR(profile.shows)
  /\ profile.badges \in Nat /\ profile.badges <= Cardinality(Owned)
  /\ ~profile.exists =>
       ledger = {} /\ Owned = {} /\ \A p \in Processes : Enrolling(frame[p])
StoreKnown ==
  /\ owned \in [Badges -> {"no"} \cup Hows]
  /\ \A b \in Owned : Deserved(b, ledger)
  /\ \A a \in Activities : entry[a].base \in Nat \cup {Unset} /\ entry[a].base <= XpOf(ledger)
  /\ unranked \subseteq {Activity(a) : a \in Activities} \cap ledger
ValueInv ==
  /\ \A p \in Processes : KnownHolds(frame[p], ledger, Cardinality(Owned))
  /\ ProfileKnown /\ StoreKnown

-----------------------------------------------------------------------------
(* As the ledger grows.                                                    *)

LEMMA RunGrows ==
  ASSUME NEW l, NEW m, l \subseteq m
  PROVE  LR(l) \in Nat /\ LR(m) \in Nat /\ LR(l) <= LR(m)
<1>1. DaysOf(l) \subseteq DaysOf(m)
  BY DEF DaysOf
<1> QED
  BY <1>1, LongestRunFacts, LongestRunGrows DEF LR

LEMMA CountGrows ==
  ASSUME NEW l, NEW m, l \subseteq m, IsFiniteSet(m)
  PROVE  LET count(x) == Cardinality({a \in Activities : Activity(a) \in x})
         IN count(l) \in Nat /\ count(m) \in Nat /\ count(l) <= count(m)
<1> DEFINE S(x) == {a \in Activities : Activity(a) \in x}
           f == [a \in S(m) |-> Activity(a)]
<1>1. f \in Injection(S(m), m)
  BY ActivityFacts DEF Injection, IsInjective
<1>2. IsFiniteSet(S(m))
  BY <1>1, FS_Injection
<1>3. S(l) \subseteq S(m)
  OBVIOUS
<1>4. IsFiniteSet(S(l)) /\ Cardinality(S(l)) <= Cardinality(S(m))
  BY <1>2, <1>3, FS_Subset
<1>5. Cardinality(S(l)) \in Nat
  BY <1>4, FS_CardinalityType
<1>6. Cardinality(S(m)) \in Nat
  BY <1>2, FS_CardinalityType
<1> QED
  BY <1>4, <1>5, <1>6

LEMMA ReachedGrows ==
  ASSUME NEW l, NEW m, l \subseteq m, IsFiniteSet(m), NEW x \in Nat, NEW y \in Nat, x <= y,
         NEW b \in Badges, Reached(b, l, x)
  PROVE  Reached(b, m, y)
<1>1. Target[b] \in Nat
  BY RewardsAssumption
<1>2. CASE b \in Streaks
  BY <1>1, <1>2 DEF Reached, Progress
<1>3. CASE b \notin Streaks
  <2> DEFINE count(z) == Cardinality({a \in Activities : Activity(a) \in z})
  <2>1. count(l) \in Nat /\ count(m) \in Nat /\ count(l) <= count(m)
    BY CountGrows
  <2>2. count(l) >= Target[b]
    BY <1>3 DEF Reached, Progress
  <2>3. Progress(b, m, y) = count(m)
    BY <1>3 DEF Progress
  <2> HIDE DEF count
  <2> QED
    BY <1>1, <2>1, <2>2, <2>3 DEF Reached
<1> QED
  BY <1>2, <1>3

LEMMA DeservedGrows ==
  ASSUME NEW l, NEW m, l \subseteq m, IsFiniteSet(m), NEW b \in Badges, Deserved(b, l)
  PROVE  Deserved(b, m)
BY RunGrows, ReachedGrows DEF Deserved

\* What a call does not change.
LEMMA MoveFacts ==
  ASSUME AchievementsInv, NEW p \in Processes, NEW k, NEW s, Moves(p, k, s)
  PROVE  /\ IsScript(s) /\ IsScript(frame[p].todo) /\ frame[p].todo # <<>>
         /\ Head(frame[p].todo)[1] = k /\ Arg(p) = Head(frame[p].todo)[2]
         /\ ledger \subseteq ledger' /\ IsFiniteSet(ledger)
         /\ frame'[p].todo = Pushed(s, frame[p].todo) /\ IsScript(frame'[p].todo)
<1>1. frame[p].todo # <<>> /\ Head(frame[p].todo)[1] = k /\ Arg(p) = Head(frame[p].todo)[2]
  BY DEF Moves, Goes, At, Arg
<1>2. IsScript(frame[p].todo) /\ IsFiniteSet(ledger)
  BY DEF AchievementsInv, FramesHold, FrameHolds, FrameShape, Good, LedgerHolds
<1>3. IsScript(s) /\ frame'[p].todo = Pushed(s, frame[p].todo)
  BY DEF Moves, Goes, Pushes
<1>4. ledger \subseteq ledger'
  BY DEF Moves, Writes
<1>5. IsScript(Pushed(s, frame[p].todo))
  BY <1>1, <1>2, <1>3, PushFacts
<1> QED
  BY <1>1, <1>2, <1>3, <1>4, <1>5

-----------------------------------------------------------------------------
(* The scripts stay what they are.                                         *)

LEMMA ScriptGrows ==
  ASSUME NEW f, NEW l, NEW m, l \subseteq m, IsFiniteSet(m), ScriptHolds(f, l)
  PROVE  ScriptHolds(f, m)
<1>1. \A b \in Badges : Deserved(b, l) => Deserved(b, m)
  BY DeservedGrows
<1>2. AwardHolds(f, l) => AwardHolds(f, m)
  BY DEF AwardHolds
<1> QED
  BY <1>1, <1>2 DEF ScriptHolds

LEMMA AwardGoesOn ==
  ASSUME NEW f, NEW g, NEW k, NEW s, NEW l, NEW m, IsScript(f.todo), f.todo # <<>>, l \subseteq m,
         AwardHolds(f, l), Pushes(k, s), g.todo = Pushed(s, f.todo), Head(f.todo)[1] = k,
         g.owed = f.owed, k # "create" => g.base = f.base, k = "create" => f.owed \subseteq m
  PROVE  AwardHolds(g, m)
<1> DEFINE t == f.todo
           u == g.todo
           n == Len(s) - 1
<1>1. IsScript(s)
  BY DEF Pushes
<1>2. /\ n \in Int /\ DOMAIN s \subseteq Int /\ DOMAIN t \subseteq Int
      /\ Suffix(s, 1, u, 0) /\ Suffix(t, 2, u, n)
      /\ \A i \in DOMAIN s : i >= 1 /\ i <= Len(s)
      /\ \A i \in DOMAIN u : i \in DOMAIN s \/ \E j \in DOMAIN t : j >= 2 /\ i = j + n
      /\ 1 \in DOMAIN t /\ Head(t) = t[1]
  BY <1>1, PushFacts
<1> HIDE DEF n, t, u
<1>3. ASSUME NEW i \in DOMAIN u, u[i][1] \in {"create", "rank"}
      PROVE  \E j \in DOMAIN t : j >= 2 /\ i = j + n /\ u[i] = t[j]
  <2>1. ASSUME i \in DOMAIN s PROVE FALSE
    <3>1. u[i] = s[i]
      <4>1. i >= 1 /\ i + 0 = i
        BY <1>2, <2>1
      <4> QED
        BY <1>2, <2>1, <4>1 DEF Suffix
    <3> QED
      BY <1>3, <2>1, <3>1 DEF Pushes
  <2>2. PICK j \in DOMAIN t : j >= 2 /\ i = j + n
    BY <1>2, <2>1
  <2> QED
    BY <1>2, <2>2 DEF Suffix
<1>4. RankLater(u)
  <2>1. RankLater(t)
    BY DEF AwardHolds, t
  <2>2. (\A i \in DOMAIN s : s[i][1] \notin Watched) \/ Head(t)[1] \in Watched
    BY DEF Pushes, t
  <2> QED
    BY <1>1, <2>1, <2>2, RankPush DEF t, u
<1>5. \E a \in Activities :
        g.owed = {Activity(a)} /\ \A i \in DOMAIN u : u[i][1] \in {"create", "rank"} => u[i][2] = a
  <2>1. PICK a \in Activities :
          f.owed = {Activity(a)} /\ \A i \in DOMAIN t : t[i][1] \in {"create", "rank"} => t[i][2] = a
    BY DEF AwardHolds, t
  <2>2. \A i \in DOMAIN u : u[i][1] \in {"create", "rank"} => u[i][2] = a
    BY <1>3, <2>1
  <2> QED
    BY <2>1, <2>2
<1>6. \A i, j \in DOMAIN t : t[i][1] = "create" /\ t[j][1] = "create" => i = j
  BY DEF AwardHolds, t
<1>7. \A i, j \in DOMAIN u : u[i][1] = "create" /\ u[j][1] = "create" => i = j
  BY <1>3, <1>6
<1>8. ASSUME k = "create" PROVE ~HasKind(u, "create")
  <2>1. t[1][1] = "create"
    BY <1>2, <1>8 DEF t
  <2> QED
    BY <1>2, <1>3, <1>6, <2>1 DEF HasKind
<1>9. ~HasKind(t, "create") => ~HasKind(u, "create")
  BY <1>3 DEF HasKind
<1>10. g.base # Unset => ~HasKind(u, "create") /\ g.owed \subseteq m
  BY <1>8, <1>9 DEF AwardHolds, t
<1> QED
  BY <1>4, <1>5, <1>7, <1>10 DEF AwardHolds, u

LEMMA MovesKeepScripts ==
  ASSUME AchievementsInv, AchievementsInv', ScriptInv, ValueInv,
         NEW p \in Processes, NEW k, NEW s, Moves(p, k, s)
  PROVE  ScriptInv'
<1> DEFINE f == frame[p]
           g == frame'[p]
<1>1. /\ IsScript(s) /\ IsScript(f.todo) /\ f.todo # <<>> /\ Head(f.todo)[1] = k
      /\ Arg(p) = Head(f.todo)[2] /\ ledger \subseteq ledger' /\ g.todo = Pushed(s, f.todo)
  BY MoveFacts
<1>2. IsFiniteSet(ledger') /\ IsFiniteSet(ledger)
  BY DEF AchievementsInv, LedgerHolds
<1>3. /\ Pushes(k, s) /\ g.op = f.op /\ g.owed = f.owed
      /\ \A q \in Processes \ {p} : frame'[q] = frame[q]
  BY DEF Moves, Goes
<1>4. g.base = IF k = "create" THEN f.seen.xp ELSE f.base
  BY DEF Moves, Knows
<1>5. ScriptHolds(f, ledger) /\ KnownHolds(f, ledger, Cardinality(Owned))
  BY DEF ScriptInv, ValueInv
<1>6. k = "create" => ledger' = ledger \cup {Activity(Arg(p))}
  BY DEF Moves, Writes
<1>7. \A i \in DOMAIN s :
        s[i][1] \in Hows => s[i][2] \in Badges /\ Reached(s[i][2], ledger, f.seen.longest)
  BY DEF Moves, Leads
<1> HIDE DEF f, g
<1>8. Sound(g.todo) /\ PaidLater(g.todo)
  BY <1>1, <1>3, <1>5, SoundPush, PaidPush DEF Pushes, ScriptHolds
<1>9. g.op # "idle"
  BY <1>1, <1>3, <1>5 DEF ScriptHolds
<1>10. ASSUME NEW i \in DOMAIN g.todo, g.todo[i][1] \in Hows
       PROVE  g.todo[i][2] \in Badges /\ Deserved(g.todo[i][2], ledger')
  <2> DEFINE c == g.todo[i]
  <2>1. HasCall(g.todo, c)
    BY DEF HasCall
  <2>2. HasCall(s, c) \/ HasCall(f.todo, c)
    BY <1>1, <2>1, AheadPush
  <2>3. c[2] \in Badges /\ Deserved(c[2], ledger)
    <3>1. CASE HasCall(s, c)
      <4>1. c[2] \in Badges /\ Reached(c[2], ledger, f.seen.longest)
        BY <1>7, <1>10, <3>1 DEF HasCall
      <4>2. f.seen.longest \in Nat /\ f.seen.longest <= LR(ledger) /\ LR(ledger) \in Nat
        BY <1>5, RunGrows DEF KnownHolds
      <4> QED
        BY <1>2, <4>1, <4>2, ReachedGrows DEF Deserved
    <3>2. CASE HasCall(f.todo, c)
      BY <1>5, <1>10, <3>2 DEF HasCall, ScriptHolds
    <3> QED
      BY <2>2, <3>1, <3>2
  <2> QED
    BY <1>1, <1>2, <2>3, DeservedGrows
<1>11. ASSUME f.op = "award" PROVE AwardHolds(g, ledger')
  <2>1. AwardHolds(f, ledger)
    BY <1>5, <1>11 DEF ScriptHolds
  <2>2. k = "create" => f.owed \subseteq ledger'
    <3>1. ASSUME k = "create" PROVE f.owed \subseteq ledger'
      <4>1. PICK a \in Activities :
              /\ f.owed = {Activity(a)}
              /\ \A i \in DOMAIN f.todo : f.todo[i][1] \in {"create", "rank"} => f.todo[i][2] = a
        BY <2>1 DEF AwardHolds
      <4>2. 1 \in DOMAIN f.todo /\ f.todo[1] = Head(f.todo)
        BY <1>1, RestFacts
      <4>3. Arg(p) = a
        BY <1>1, <3>1, <4>1, <4>2
      <4> QED
        BY <1>6, <3>1, <4>1, <4>3
    <3> QED
      BY <3>1
  <2>3. k # "create" => g.base = f.base
    BY <1>4
  <2> QED
    BY <1>1, <1>3, <2>1, <2>2, <2>3, AwardGoesOn
<1>12. ASSUME f.op # "award" PROVE g.base = Unset /\ ~HasKind(g.todo, "create")
  <2>1. f.base = Unset /\ ~HasKind(f.todo, "create")
    BY <1>5, <1>12 DEF ScriptHolds
  <2>2. 1 \in DOMAIN f.todo /\ f.todo[1] = Head(f.todo)
    BY <1>1, RestFacts
  <2>3. k # "create"
    BY <1>1, <2>1, <2>2 DEF HasKind
  <2>4. ~HasKind(s, "create")
    BY <1>3 DEF Pushes, HasKind
  <2> QED
    BY <1>1, <1>4, <2>1, <2>3, <2>4, AheadPush
<1>13. ScriptHolds(g, ledger')
  BY <1>3, <1>8, <1>9, <1>10, <1>11, <1>12 DEF ScriptHolds
<1>14. \A q \in Processes \ {p} : ScriptHolds(frame[q], ledger')
  BY <1>1, <1>2, ScriptGrows DEF ScriptInv
<1> QED
  BY <1>3, <1>13, <1>14 DEF ScriptInv, g

-----------------------------------------------------------------------------
(* What is stored and known stays consistent.                              *)

\* A projection that is not newer is of a ledger that the profile already shows.
LEMMA OlderShowsLess ==
  ASSUME AchievementsInv, NEW p \in Processes, ~Newer(p)
  PROVE  frame[p].total \subseteq profile.shows
<1> DEFINE old == profile.shows
           new == frame[p].total
<1>1. /\ old \subseteq ledger /\ new \subseteq ledger /\ IsFiniteSet(ledger)
      /\ new \subseteq old \/ old \subseteq new
  BY DEF AchievementsInv, Chain, LedgerHolds
<1>2. ~(Cardinality(old) < Cardinality(new))
  BY DEF Newer
<1> HIDE DEF old, new
<1>3. IsFiniteSet(old) /\ IsFiniteSet(new)
  BY <1>1, FS_Subset
<1>4. Cardinality(old) \in Nat /\ Cardinality(new) \in Nat
  BY <1>3, FS_CardinalityType
<1>5. ASSUME old \subseteq new PROVE old = new
  <2>1. /\ Cardinality(old) <= Cardinality(new)
        /\ Cardinality(new) = Cardinality(old) => new = old
    BY <1>3, <1>5, FS_Subset
  <2> QED
    BY <1>2, <1>4, <2>1
<1> QED
  BY <1>1, <1>5 DEF old, new

LEMMA OwnedGrows ==
  ASSUME ValueInv, owned' \in [Badges -> {"no"} \cup Hows], Owned \subseteq Owned'
  PROVE  /\ Cardinality(Owned) \in Nat /\ Cardinality(Owned') \in Nat
         /\ Cardinality(Owned) <= Cardinality(Owned')
         /\ IsFiniteSet(Owned) /\ IsFiniteSet(Owned')
<1>1. IsFiniteSet(Badges) /\ Owned' \subseteq Badges
  BY RewardsAssumption DEF Owned
<1>2. IsFiniteSet(Owned')
  BY <1>1, FS_Subset
<1>3. IsFiniteSet(Owned) /\ Cardinality(Owned) <= Cardinality(Owned')
  BY <1>2, FS_Subset
<1>4. Cardinality(Owned) \in Nat
  BY <1>3, FS_CardinalityType
<1>5. Cardinality(Owned') \in Nat
  BY <1>2, FS_CardinalityType
<1> QED
  BY <1>2, <1>3, <1>4, <1>5

LEMMA XpBounded ==
  ASSUME NEW l, NEW m, LedgerHolds, LedgerHolds', l \subseteq ledger, ledger \subseteq ledger'
  PROVE  /\ XpOf(l) \in Nat /\ XpOf(ledger) \in Nat /\ XpOf(ledger') \in Nat
         /\ XpOf(l) <= XpOf(ledger) /\ XpOf(ledger) <= XpOf(ledger')
<1>1. /\ ledger \subseteq References /\ IsFiniteSet(ledger)
      /\ ledger' \subseteq References /\ IsFiniteSet(ledger')
  BY DEF LedgerHolds
<1>2. XpOf(l) \in Nat /\ XpOf(ledger) \in Nat /\ XpOf(l) <= XpOf(ledger)
  BY <1>1, XpGrows
<1>3. XpOf(ledger') \in Nat /\ XpOf(ledger) <= XpOf(ledger')
  BY <1>1, XpGrows
<1> QED
  BY <1>2, <1>3

LEMMA KnownGrows ==
  ASSUME NEW f, NEW l, NEW m, NEW n \in Nat, NEW o \in Nat, l \subseteq m, n <= o,
         XpOf(l) \in Nat, XpOf(m) \in Nat, XpOf(l) <= XpOf(m), KnownHolds(f, l, n)
  PROVE  KnownHolds(f, m, o)
<1>1. LR(l) \in Nat /\ LR(m) \in Nat /\ LR(l) <= LR(m)
  BY RunGrows
<1>2. f.base <= XpOf(m)
  BY DEF KnownHolds, Unset
<1> QED
  BY <1>1, <1>2 DEF KnownHolds

\* The badges after a call.
LEMMA MovesKeepOwned ==
  ASSUME AchievementsInv, AchievementsInv', ScriptInv, ValueInv,
         NEW p \in Processes, NEW k, NEW s, Moves(p, k, s)
  PROVE  /\ owned' \in [Badges -> {"no"} \cup Hows]
         /\ \A b \in Badges : owned[b] # "no" => owned'[b] = owned[b]
         /\ \A b \in Badges : owned'[b] # owned[b] => k \in Hows /\ b = Arg(p) /\ owned'[b] = k
         /\ k \in Hows => Arg(p) \in Badges /\ Deserved(Arg(p), ledger') /\ owned'[Arg(p)] # "no"
         /\ Owned \subseteq Owned'
         /\ \A b \in Owned' : Deserved(b, ledger')
<1>1. owned' = IF k \in Hows THEN [owned EXCEPT ![Arg(p)] = IF @ = "no" THEN k ELSE @] ELSE owned
  BY DEF Moves, Writes
<1>2. owned \in [Badges -> {"no"} \cup Hows] /\ \A b \in Owned : Deserved(b, ledger)
  BY DEF ValueInv, StoreKnown
<1>3. owned' \in [Badges -> {"no"} \cup Hows]
  BY <1>1, <1>2
<1>4. \A b \in Badges : owned[b] # "no" => owned'[b] = owned[b]
  BY <1>1, <1>2
<1>5. \A b \in Badges : owned'[b] # owned[b] => k \in Hows /\ b = Arg(p) /\ owned'[b] = k
  BY <1>1, <1>2
<1>6. Owned \subseteq Owned'
  BY <1>4 DEF Owned
<1>7. ledger \subseteq ledger' /\ IsFiniteSet(ledger')
  BY MoveFacts DEF AchievementsInv, LedgerHolds
<1>8. k \in Hows => Arg(p) \in Badges /\ Deserved(Arg(p), ledger')
  <2>1. ASSUME k \in Hows PROVE Arg(p) \in Badges /\ Deserved(Arg(p), ledger')
    <3> DEFINE t == frame[p].todo
    <3>1. IsScript(t) /\ t # <<>> /\ Head(t)[1] = k /\ Arg(p) = Head(t)[2]
      BY MoveFacts
    <3>2. \A i \in DOMAIN t : t[i][1] \in Hows => t[i][2] \in Badges /\ Deserved(t[i][2], ledger)
      BY DEF ScriptInv, ScriptHolds
    <3> HIDE DEF t
    <3>3. 1 \in DOMAIN t /\ t[1] = Head(t)
      BY <3>1, RestFacts
    <3>4. Arg(p) \in Badges /\ Deserved(Arg(p), ledger)
      BY <2>1, <3>1, <3>2, <3>3
    <3> QED
      BY <1>7, <3>4, DeservedGrows
  <2> QED
    BY <2>1
<1>9. k \in Hows => owned'[Arg(p)] # "no"
  BY <1>1, <1>2, <1>8 DEF Hows
<1>10. ASSUME NEW b \in Owned' PROVE Deserved(b, ledger')
  <2>1. b \in Badges /\ (b \in Owned \/ owned'[b] # owned[b])
    BY DEF Owned
  <2>2. CASE b \in Owned
    BY <1>2, <1>7, <2>1, <2>2, DeservedGrows
  <2>3. CASE owned'[b] # owned[b]
    BY <1>5, <1>8, <2>1, <2>3
  <2> QED
    BY <2>1, <2>2, <2>3
<1> QED
  BY <1>3, <1>4, <1>5, <1>6, <1>8, <1>9, <1>10

\* What the projection of a recalculation leaves stored, and the request with it.
LEMMA MovesProject ==
  ASSUME AchievementsInv, AchievementsInv', ScriptInv, ValueInv,
         NEW p \in Processes, NEW k, NEW s, Moves(p, k, s)
  PROVE  /\ profile'.longest \in Nat /\ profile'.longest <= LR(ledger')
         /\ profile'.longest >= LR(profile'.shows)
         /\ profile'.badges \in Nat /\ profile'.badges <= Cardinality(Owned')
         /\ profile.exists => profile'.exists
         /\ k \in {"project", "enroll"} /\ Answers(k, s) => profile'.exists
<1> DEFINE f == frame[p]
           n == Cardinality(Owned)
           o == Cardinality(Owned')
<1>1. ledger \subseteq ledger' /\ f.todo # <<>> /\ Head(f.todo)[1] = k
  BY MoveFacts
<1>2. LR(ledger) \in Nat /\ LR(ledger') \in Nat /\ LR(ledger) <= LR(ledger')
  BY <1>1, RunGrows
<1>3. n \in Nat /\ o \in Nat /\ n <= o
  BY MovesKeepOwned, OwnedGrows
<1>4. KnownHolds(f, ledger, n) /\ ProfileKnown
  BY DEF ValueInv
<1>5. /\ profile' = IF \/ k = "project" /\ profile.exists /\ Newer(p)
                       \/ k = "enroll" /\ ~profile.exists
                    THEN Projection(p)
                    ELSE IF k = "stamp" THEN [profile EXCEPT !.current = TRUE] ELSE profile
      /\ k = "project" => s = IF profile.exists THEN <<>> ELSE <<Do("enroll")>>
  BY DEF Moves, Projects
<1>6. CASE profile' = Projection(p) /\ k \in {"project", "enroll"}
  <2>1. /\ profile'.exists /\ profile'.longest = f.longest /\ profile'.shows = f.total
        /\ profile'.badges = f.badges
    BY <1>6 DEF Projection
  <2>2. f.longest >= LR(f.total)
    BY <1>1, <1>4, <1>6 DEF KnownHolds, HeadIs
  <2> HIDE DEF f, n, o
  <2> QED
    BY <1>2, <1>3, <1>4, <2>1, <2>2 DEF KnownHolds, o
<1>7. CASE ~(profile' = Projection(p) /\ k \in {"project", "enroll"})
  <2>1. profile' = profile \/ profile' = [profile EXCEPT !.current = TRUE]
    BY <1>5, <1>7
  <2>2. DOMAIN profile = {"exists", "shows", "longest", "badges", "current"}
    BY DEF AchievementsInv, ProfileShape
  <2>3. /\ profile'.exists = profile.exists /\ profile'.longest = profile.longest
        /\ profile'.shows = profile.shows /\ profile'.badges = profile.badges
    BY <2>1, <2>2
  <2>4. k \in {"project", "enroll"} /\ Answers(k, s) => profile.exists
    <3>1. <<Do("enroll")>> # <<>>
      OBVIOUS
    <3> QED
      BY <1>5, <1>7, <3>1 DEF Answers
  <2> HIDE DEF f, n, o
  <2> QED
    BY <1>2, <1>3, <1>4, <2>3, <2>4 DEF ProfileKnown, n, o
<1> QED
  BY <1>6, <1>7

\* What the request knows after a call.
LEMMA MoveKnows ==
  ASSUME AchievementsInv, AchievementsInv', ScriptInv, ValueInv,
         NEW p \in Processes, NEW k, NEW s, Moves(p, k, s)
  PROVE  KnownHolds(frame'[p], ledger', Cardinality(Owned'))
<1> DEFINE f == frame[p]
           g == frame'[p]
           n == Cardinality(Owned)
           o == Cardinality(Owned')
<1>1. /\ ledger \subseteq ledger' /\ f.todo # <<>> /\ Head(f.todo)[1] = k /\ IsScript(f.todo)
      /\ g.todo = Pushed(s, f.todo)
  BY MoveFacts
<1>2. n \in Nat /\ o \in Nat /\ n <= o
  BY MovesKeepOwned, OwnedGrows
<1>3. /\ g.total = IF k = "totals" THEN ledger ELSE IF Answers(k, s) THEN {} ELSE f.total
      /\ g.longest = IF k = "dates" THEN LR(ledger) ELSE IF Answers(k, s) THEN 0 ELSE f.longest
      /\ g.badges = IF k = "ownerships" THEN n ELSE IF Answers(k, s) THEN 0 ELSE f.badges
      /\ IF Answers(k, s)
         THEN g.seen.xp = XpOf(profile'.shows) /\ g.seen.longest = profile'.longest
         ELSE g.seen \in {f.seen, Unseen}
      /\ g.base = IF k = "create" THEN f.seen.xp ELSE f.base
  BY DEF Moves, Knows
<1>4. KnownHolds(f, ledger, n) /\ Sound(f.todo) /\ f.total \subseteq ledger
  BY DEF ValueInv, ScriptInv, ScriptHolds, AchievementsInv, Chain
<1>5. XpOf(ledger) \in Nat /\ XpOf(ledger') \in Nat /\ XpOf(ledger) <= XpOf(ledger')
  BY <1>1, XpBounded DEF AchievementsInv
<1>6. KnownHolds(f, ledger', o)
  BY <1>1, <1>2, <1>4, <1>5, KnownGrows
<1>7. profile'.longest \in Nat /\ profile'.longest <= LR(ledger')
  BY MovesProject
<1>8. XpOf(profile'.shows) \in Nat /\ XpOf(profile'.shows) <= XpOf(ledger')
  <2>1. profile'.shows \subseteq ledger' /\ ledger' \subseteq References /\ IsFiniteSet(ledger')
    BY DEF AchievementsInv, Chain, LedgerHolds
  <2> QED
    BY <2>1, XpGrows
<1>9. LR(ledger) \in Nat /\ LR(ledger') \in Nat /\ LR(ledger) <= LR(ledger')
  BY <1>1, RunGrows
<1>10. LR({}) = 0
  <2>1. DaysOf({}) = {}
    BY DEF DaysOf
  <2> QED
    BY <2>1, NoRun DEF LR
<1>11. k \in {"totals", "dates", "ownerships"} => ~Answers(k, s)
  BY DEF Answers
<1>12. k = "totals" => HeadIs(g.todo, {"dates"})
  <2>1. k = "totals" => s = <<>>
    BY DEF Moves, Projects
  <2>2. Pushed(<<>>, f.todo) = Tail(f.todo)
    BY <1>1, RestFacts
  <2> HIDE DEF f, g
  <2> QED
    BY <1>1, <1>4, <2>1, <2>2, ReadingGoesOn
<1>13. LR(f.total) \in Nat /\ LR(f.total) <= LR(ledger)
  BY <1>4, RunGrows
<1>14. k # "dates" => f.longest >= LR(f.total)
  BY <1>1, <1>4 DEF KnownHolds, HeadIs
<1> HIDE DEF f, g, n, o
<1>15. g.longest \in Nat /\ g.longest <= LR(ledger')
  BY <1>3, <1>6, <1>9 DEF KnownHolds
<1>16. g.badges \in Nat /\ g.badges <= o
  BY <1>2, <1>3, <1>6 DEF KnownHolds
<1>17. g.base \in Nat \cup {Unset} /\ g.base <= XpOf(ledger')
  BY <1>3, <1>6 DEF KnownHolds
<1>18. /\ g.seen.longest \in Nat /\ g.seen.longest <= LR(ledger')
       /\ g.seen.xp \in Nat /\ g.seen.xp <= XpOf(ledger')
  <2>1. CASE Answers(k, s)
    BY <1>3, <1>7, <1>8, <2>1
  <2>2. CASE ~Answers(k, s) /\ g.seen = f.seen
    BY <1>6, <2>2 DEF KnownHolds
  <2>3. CASE g.seen = Unseen
    BY <1>5, <1>9, <2>3 DEF Unseen
  <2> QED
    BY <1>3, <2>1, <2>2, <2>3
<1>19. HeadIs(g.todo, {"dates"}) \/ g.longest >= LR(g.total)
  <2>1. CASE k = "totals"
    BY <1>12, <2>1
  <2>2. CASE k = "dates"
    BY <1>3, <1>9, <1>11, <1>13, <2>2
  <2>3. CASE Answers(k, s)
    BY <1>3, <1>10, <1>11, <2>3
  <2>4. CASE k \notin {"totals", "dates"} /\ ~Answers(k, s)
    BY <1>3, <1>14, <2>4
  <2> QED
    BY <2>1, <2>2, <2>3, <2>4
<1> QED
  BY <1>15, <1>16, <1>17, <1>18, <1>19 DEF KnownHolds, g, o

\* Until there is a profile, all that requests do is recalculate the first one.
LEMMA MovesEnroll ==
  ASSUME AchievementsInv, AchievementsInv', ScriptInv, ValueInv,
         NEW p \in Processes, NEW k, NEW s, Moves(p, k, s), ~profile'.exists
  PROVE  ledger' = {} /\ Owned' = {} /\ \A q \in Processes : Enrolling(frame'[q])
<1> DEFINE f == frame[p]
           g == frame'[p]
<1>1. /\ f.todo # <<>> /\ Head(f.todo)[1] = k /\ IsScript(f.todo) /\ g.todo = Pushed(s, f.todo)
  BY MoveFacts
<1>2. ~profile.exists /\ ~(k \in {"project", "enroll"} /\ Answers(k, s))
  BY MovesProject
<1>3. ledger = {} /\ Owned = {} /\ \A q \in Processes : Enrolling(frame[q])
  BY <1>2 DEF ValueInv, ProfileKnown
<1>4. k \in {"totals", "dates", "ownerships", "project", "enroll"}
  BY <1>1, <1>3 DEF Enrolling, HeadIs
<1>5. /\ k = "project" => s = <<Do("enroll")>>
      /\ k \in {"totals", "dates", "ownerships", "enroll", "restore"} => s = <<>>
  BY <1>2 DEF Moves, Projects
<1>6. k # "enroll"
  BY <1>2 DEF Answers
<1>7. ledger' = ledger /\ owned' = owned
  BY <1>4 DEF Moves, Writes, Hows
<1>8. \A q \in Processes \ {p} : frame'[q] = frame[q]
  BY DEF Moves, Goes
<1>9. Pushed(<<>>, f.todo) = Tail(f.todo) /\ Sound(f.todo)
  BY <1>1, RestFacts DEF ScriptInv, ScriptHolds
<1> HIDE DEF f, g
<1>10. Enrolling(g)
  <2>1. CASE k = "project"
    BY <1>1, <1>5, <2>1, EnrollingGoesOn DEF Enrolling, HeadIs
  <2>2. CASE k \in {"totals", "dates", "ownerships"}
    BY <1>1, <1>5, <1>9, <2>2, ReadingGoesOn DEF Enrolling, HeadIs
  <2> QED
    BY <1>4, <1>6, <2>1, <2>2
<1>11. Owned' = Owned
  BY <1>7 DEF Owned
<1> QED
  BY <1>3, <1>7, <1>8, <1>10, <1>11 DEF g

LEMMA MovesKeepValues ==
  ASSUME AchievementsInv, AchievementsInv', ScriptInv, ValueInv,
         NEW p \in Processes, NEW k, NEW s, Moves(p, k, s)
  PROVE  ValueInv'
<1> DEFINE n == Cardinality(Owned)
           o == Cardinality(Owned')
<1>1. ledger \subseteq ledger'
  BY MoveFacts
<1>2. n \in Nat /\ o \in Nat /\ n <= o
  BY MovesKeepOwned, OwnedGrows
<1>3. XpOf(ledger) \in Nat /\ XpOf(ledger') \in Nat /\ XpOf(ledger) <= XpOf(ledger')
  BY <1>1, XpBounded DEF AchievementsInv
<1>4. /\ \A q \in Processes \ {p} : frame'[q] = frame[q]
      /\ UNCHANGED unranked
  BY DEF Moves, Goes
<1>5. \A q \in Processes : KnownHolds(frame[q], ledger, n)
  BY DEF ValueInv
<1>6. KnownHolds(frame'[p], ledger', o)
  BY MoveKnows
<1> HIDE DEF n, o
<1>7. \A q \in Processes : KnownHolds(frame'[q], ledger', o)
  <2>1. ASSUME NEW q \in Processes, q # p PROVE KnownHolds(frame'[q], ledger', o)
    BY <1>1, <1>2, <1>3, <1>4, <1>5, <2>1, KnownGrows
  <2> QED
    BY <1>6, <2>1
<1>8. ProfileKnown'
  BY MovesProject, MovesEnroll DEF ProfileKnown
<1>9. \A a \in Activities : entry'[a].base \in Nat \cup {Unset} /\ entry'[a].base <= XpOf(ledger')
  <2>1. \A a \in Activities : entry[a].base \in Nat \cup {Unset} /\ entry[a].base <= XpOf(ledger)
    BY DEF ValueInv, StoreKnown
  <2>2. frame[p].seen.xp \in Nat /\ frame[p].seen.xp <= XpOf(ledger)
    BY <1>5 DEF KnownHolds
  <2>3. \A a \in Activities : entry'[a].base \in {entry[a].base, frame[p].seen.xp}
    <3>1. IF k = "create" THEN BookActivity(Arg(p), today, frame[p].seen.xp) ELSE entry' = entry
      BY DEF Moves, Writes
    <3>2. DOMAIN entry = Activities
      BY DEF AchievementsInv, LedgerHolds
    <3> QED
      BY <3>1, <3>2 DEF BookActivity
  <2> QED
    BY <1>3, <2>1, <2>2, <2>3 DEF Unset
<1>10. StoreKnown'
  <2>1. unranked' \subseteq {Activity(a) : a \in Activities} \cap ledger'
    BY <1>1, <1>4 DEF ValueInv, StoreKnown
  <2> QED
    BY <1>9, <2>1, MovesKeepOwned DEF StoreKnown
<1> QED
  BY <1>7, <1>8, <1>10 DEF ValueInv, o

-----------------------------------------------------------------------------
(* The steps that are no calls of a script.                                *)

SameRequest(f, g) ==
  /\ g.op = f.op /\ g.todo = f.todo /\ g.total = f.total /\ g.longest = f.longest
  /\ g.badges = f.badges /\ g.seen = f.seen /\ g.base = f.base /\ g.owed = f.owed

\* What a new request is, and what is left of one that ended.
Fresh(g, l) ==
  /\ ScriptHolds(g, l)
  /\ g.total = {} /\ g.longest = 0 /\ g.badges = 0 /\ g.seen = Unseen /\ g.base = Unset
  /\ g.made = FALSE

LEMMA IdleFresh ==
  ASSUME NEW l
  PROVE  Fresh(Idle, l) /\ Idle.todo = <<>> /\ Idle.op = "idle"
BY DEF Fresh, Idle, ScriptHolds, Sound, PaidLater, HasKind

LEMMA FreshKnows ==
  ASSUME NEW g, NEW l, Fresh(g, l), NEW n \in Nat, XpOf(l) \in Nat
  PROVE  KnownHolds(g, l, n)
<1>1. DaysOf({}) = {}
  BY DEF DaysOf
<1>2. LR({}) = 0
  BY <1>1, NoRun DEF LR
<1>3. LR(l) \in Nat
  BY RunGrows
<1>4. Unseen.xp = 0 /\ Unseen.longest = 0
  BY DEF Unseen
<1> QED
  BY <1>2, <1>3, <1>4 DEF Fresh, KnownHolds, Unset

\* Requests end or begin and the ledger grows, the profile and the badges stay.
LEMMA RequestsKeep ==
  ASSUME AchievementsInv, AchievementsInv', ScriptInv, ValueInv, ledger \subseteq ledger',
         UNCHANGED <<profile, owned>>,
         \A q \in Processes : \/ SameRequest(frame[q], frame'[q])
                              \/ /\ Fresh(frame'[q], ledger')
                                 /\ ~profile.exists => Enrolling(frame'[q]),
         ~profile.exists => ledger' = ledger,
         \A a \in Activities : entry'[a].base \in {entry[a].base, Unset},
         unranked' \subseteq {Activity(a) : a \in Activities} \cap ledger'
  PROVE  ScriptInv' /\ ValueInv'
<1> DEFINE n == Cardinality(Owned)
<1>1. Owned' = Owned /\ IsFiniteSet(ledger')
  BY DEF Owned, AchievementsInv, LedgerHolds
<1>2. n \in Nat
  BY <1>1, OwnedGrows DEF ValueInv, StoreKnown
<1>3. XpOf(ledger) \in Nat /\ XpOf(ledger') \in Nat /\ XpOf(ledger) <= XpOf(ledger')
  BY XpBounded DEF AchievementsInv
<1>4. \A q \in Processes : ScriptHolds(frame[q], ledger) /\ KnownHolds(frame[q], ledger, n)
  BY DEF ScriptInv, ValueInv
<1> HIDE DEF n
<1>5. ASSUME NEW q \in Processes
      PROVE  ScriptHolds(frame'[q], ledger') /\ KnownHolds(frame'[q], ledger', n)
  <2>1. ScriptHolds(frame[q], ledger') /\ KnownHolds(frame[q], ledger', n)
    BY <1>1, <1>2, <1>3, <1>4, ScriptGrows, KnownGrows
  <2>2. CASE SameRequest(frame[q], frame'[q])
    BY <2>1, <2>2 DEF SameRequest, ScriptHolds, AwardHolds, KnownHolds
  <2>3. CASE Fresh(frame'[q], ledger')
    BY <1>2, <1>3, <2>3, FreshKnows DEF Fresh
  <2> QED
    BY <2>2, <2>3
<1>6. LR(ledger) \in Nat /\ LR(ledger') \in Nat /\ LR(ledger) <= LR(ledger')
  BY RunGrows
<1>7. ProfileKnown'
  <2>1. ProfileKnown
    BY DEF ValueInv
  <2>2. \A q \in Processes : ~profile.exists => Enrolling(frame'[q])
    BY <2>1 DEF ProfileKnown, SameRequest, Enrolling
  <2> QED
    BY <1>1, <1>6, <2>1, <2>2 DEF ProfileKnown
<1>8. StoreKnown'
  <2>1. StoreKnown
    BY DEF ValueInv
  <2>2. \A b \in Owned' : Deserved(b, ledger')
    <3>1. Owned \subseteq Badges
      BY DEF Owned
    <3> QED
      BY <1>1, <2>1, <3>1, DeservedGrows DEF StoreKnown
  <2>3. \A a \in Activities : entry'[a].base \in Nat \cup {Unset} /\ entry'[a].base <= XpOf(ledger')
    BY <1>3, <2>1 DEF StoreKnown, Unset
  <2> QED
    BY <2>1, <2>2, <2>3 DEF StoreKnown
<1> QED
  BY <1>1, <1>5, <1>7, <1>8 DEF ScriptInv, ValueInv, n

\* A repair books one reference more.
Repays(p, r) ==
  /\ ledger' = ledger \cup {r} /\ silent' = (silent \/ (r \notin ledger /\ Xp(r) > 0))
  /\ \A q \in Processes \ {p} : frame'[q] = frame[q]
  /\ SameRequest(frame[p], frame'[p])
  /\ frame'[p].clean = frame[p].clean /\ frame'[p].made = (frame[p].made \/ r \notin ledger)
  /\ \A a \in Activities :
       entry'[a] = entry[a] \/ (Activity(a) \notin ledger /\ entry'[a].base = Unset)
  /\ UNCHANGED <<profile, owned, events, notices, unsettled, unrewarded, unranked>>

LEMMA RestoreRepays ==
  ASSUME AchievementsInv, NEW p \in Processes, Restore(p)
  PROVE  /\ frame[p].todo # <<>> /\ Head(frame[p].todo)[1] = "restore"
         /\ \E r : Repays(p, r)
<1>1. At(p, "restore")
  BY DEF Restore
<1>2. PICK r \in Earliest(frame[p].left) :
        /\ IF r[1] = "activity"
           THEN BookActivity(r[2], done[r[2]], Unset)
           ELSE Book(r) /\ UNCHANGED entry
        /\ silent' = (silent \/ (r \notin ledger /\ Xp(r) > 0))
        /\ frame' = [frame EXCEPT ![p].left = @ \ {r}, ![p].made = @ \/ r \notin ledger]
  BY DEF Restore
<1>3. DOMAIN frame = Processes /\ DOMAIN frame[p] = FrameFields /\ DOMAIN entry = Activities
  BY DEF AchievementsInv, FramesHold, FrameHolds, FrameShape, LedgerHolds
<1>4. r \in Owing(done)
  BY DEF Earliest, AchievementsInv, FramesHold, FrameHolds, FrameShape
<1>5. (\E a \in Activities : r = Activity(a)) \/ (\E d : r = Day(d))
  BY <1>4 DEF Owing, Completed
<1>6. ledger' = ledger \cup {r}
  BY <1>2, <1>5, ActivityFacts DEF BookActivity, Book
<1>7. \A a \in Activities :
        entry'[a] = entry[a] \/ (Activity(a) \notin ledger /\ entry'[a].base = Unset)
  <2>1. CASE \E a \in Activities : r = Activity(a)
    <3>1. PICK a \in Activities : r = Activity(a)
      BY <2>1
    <3>2. BookActivity(a, done[a], Unset)
      BY <1>2, <3>1, ActivityFacts
    <3> QED
      BY <1>3, <3>2 DEF BookActivity
  <2>2. CASE \E d : r = Day(d)
    <3>1. r[1] # "activity"
      BY <2>2 DEF Day
    <3> QED
      BY <1>2, <3>1
  <2> QED
    BY <1>5, <2>1, <2>2
<1>8. /\ \A q \in Processes \ {p} : frame'[q] = frame[q]
      /\ frame'[p] = [frame[p] EXCEPT !.left = @ \ {r}, !.made = @ \/ r \notin ledger]
  BY <1>2, <1>3
<1>9. SameRequest(frame[p], frame'[p]) /\ frame'[p].clean = frame[p].clean
  BY <1>3, <1>8 DEF SameRequest, FrameFields
<1>10. frame'[p].made = (frame[p].made \/ r \notin ledger)
  BY <1>3, <1>8 DEF FrameFields
<1>11. UNCHANGED <<profile, owned, events, notices, unsettled, unrewarded, unranked>>
  BY DEF Restore
<1>12. Repays(p, r)
  BY <1>2, <1>6, <1>7, <1>8, <1>9, <1>10, <1>11 DEF Repays
<1> QED
  BY <1>1, <1>12 DEF At

LEMMA RestoreKeeps ==
  ASSUME AchievementsInv, AchievementsInv', ScriptInv, ValueInv, NEW p \in Processes, Restore(p)
  PROVE  ScriptInv' /\ ValueInv'
<1>1. frame[p].todo # <<>> /\ Head(frame[p].todo)[1] = "restore"
  BY RestoreRepays
<1>2. PICK r : Repays(p, r)
  BY RestoreRepays
<1>3. profile.exists
  <2>1. ~Enrolling(frame[p])
    BY <1>1 DEF Enrolling, HeadIs
  <2> QED
    BY <2>1 DEF ValueInv, ProfileKnown
<1>4. \A q \in Processes : SameRequest(frame[q], frame'[q])
  BY <1>2 DEF Repays, SameRequest
<1>5. ledger \subseteq ledger' /\ UNCHANGED <<profile, owned, unranked>>
  BY <1>2 DEF Repays
<1>6. \A a \in Activities : entry'[a].base \in {entry[a].base, Unset}
  BY <1>2 DEF Repays
<1>7. unranked' \subseteq {Activity(a) : a \in Activities} \cap ledger'
  BY <1>5 DEF ValueInv, StoreKnown
<1> QED
  BY <1>3, <1>4, <1>5, <1>6, <1>7, RequestsKeep

LEMMA ReplyKeeps ==
  ASSUME AchievementsInv, AchievementsInv', ScriptInv, ValueInv, NEW p \in Processes, Reply(p)
  PROVE  ScriptInv' /\ ValueInv'
<1>1. frame' = [frame EXCEPT ![p] = Idle] /\ UNCHANGED <<ledger, entry, profile, owned>>
  BY DEF Reply, store
<1>2. DOMAIN frame = Processes
  BY DEF AchievementsInv, FramesHold
<1>3. frame'[p] = Idle /\ \A q \in Processes \ {p} : frame'[q] = frame[q]
  BY <1>1, <1>2
<1>4. Fresh(frame'[p], ledger') /\ Enrolling(frame'[p])
  BY <1>3, IdleFresh DEF Enrolling
<1>5. \A q \in Processes \ {p} : SameRequest(frame[q], frame'[q])
  BY <1>3 DEF SameRequest
<1>6. unranked' \subseteq unranked
  BY DEF Reply
<1>7. unranked' \subseteq {Activity(a) : a \in Activities} \cap ledger'
  BY <1>1, <1>6 DEF ValueInv, StoreKnown
<1> QED
  BY <1>1, <1>4, <1>5, <1>7, RequestsKeep

\* An award that dies after it has booked its entry leaves its rank to be announced.
LEMMA RankedBooked ==
  ASSUME AchievementsInv, ScriptInv, NEW p \in Processes
  PROVE  Ranked(p) \subseteq {Activity(a) : a \in Activities} \cap ledger
<1>1. ScriptHolds(frame[p], ledger)
  BY DEF ScriptInv
<1>2. CASE frame[p].base = Unset
  BY <1>2 DEF Ranked
<1>3. CASE frame[p].base # Unset
  <2>1. AwardHolds(frame[p], ledger)
    BY <1>1, <1>3 DEF ScriptHolds
  <2>2. frame[p].owed \subseteq ledger /\ \E a \in Activities : frame[p].owed = {Activity(a)}
    BY <1>3, <2>1 DEF AwardHolds
  <2>3. Ranked(p) = frame[p].owed
    BY <1>3 DEF Ranked
  <2> QED
    BY <2>2, <2>3
<1> QED
  BY <1>2, <1>3

LEMMA CrashKeeps ==
  ASSUME AchievementsInv, AchievementsInv', ScriptInv, ValueInv, NEW p \in Processes, Crash(p)
  PROVE  ScriptInv' /\ ValueInv'
<1>1. /\ frame' = [q \in Processes |-> IF q = p THEN Idle
                                       ELSE [frame[q] EXCEPT !.clean = frame[q].op = "idle"]]
      /\ UNCHANGED <<ledger, entry, profile, owned>> /\ unranked' = unranked \cup Ranked(p)
  BY DEF Crash, store
<1>2. \A q \in Processes : DOMAIN frame[q] = FrameFields
  BY DEF AchievementsInv, FramesHold, FrameHolds, FrameShape
<1>3. frame'[p] = Idle
  BY <1>1
<1>4. Fresh(frame'[p], ledger') /\ Enrolling(frame'[p])
  BY <1>3, IdleFresh DEF Enrolling
<1>5. ASSUME NEW q \in Processes, q # p PROVE SameRequest(frame[q], frame'[q])
  <2>1. frame'[q] = [frame[q] EXCEPT !.clean = frame[q].op = "idle"]
    BY <1>1, <1>5
  <2> QED
    BY <1>2, <2>1 DEF SameRequest, FrameFields
<1>6. unranked' \subseteq {Activity(a) : a \in Activities} \cap ledger'
  BY <1>1, RankedBooked DEF ValueInv, StoreKnown
<1> QED
  BY <1>1, <1>4, <1>5, <1>6, RequestsKeep

LEMMA StartGives ==
  ASSUME AchievementsInv, NEW p \in Processes, NEW op, NEW script, NEW owed,
         Start(p, op, script, owed)
  PROVE  LET g == frame'[p]
         IN /\ frame[p].op = "idle" /\ \A q \in Processes \ {p} : frame'[q] = frame[q]
            /\ g.op = op /\ g.todo = script /\ g.owed = owed /\ g.base = Unset
            /\ g.total = {} /\ g.longest = 0 /\ g.badges = 0 /\ g.seen = Unseen
            /\ g.made = FALSE
            /\ UNCHANGED <<today, done, store, history>>
<1>1. DOMAIN frame = Processes
  BY DEF AchievementsInv, FramesHold
<1>2. frame' = [frame EXCEPT ![p] = [Idle EXCEPT !.op = op, !.todo = script, !.owed = owed]]
  BY DEF Start
<1>3. /\ frame'[p] = [Idle EXCEPT !.op = op, !.todo = script, !.owed = owed]
      /\ \A q \in Processes \ {p} : frame'[q] = frame[q]
  BY <1>1, <1>2
<1>4. LET g == frame'[p]
      IN /\ g.op = op /\ g.todo = script /\ g.owed = owed /\ g.base = Unset
         /\ g.total = {} /\ g.longest = 0 /\ g.badges = 0 /\ g.seen = Unseen
         /\ g.made = FALSE
  BY <1>3 DEF Idle
<1> QED
  BY <1>3, <1>4 DEF Start

\* A request begins with a recalculation, or there is a profile.
LEMMA StartsFresh ==
  ASSUME AchievementsInv, NEW p \in Processes, Award(p) \/ Read(p) \/ Upgrade(p)
  PROVE  LET g == frame'[p]
         IN /\ frame[p].op = "idle" /\ \A q \in Processes \ {p} : frame'[q] = frame[q]
            /\ UNCHANGED <<today, done, store, history>>
            /\ Fresh(g, ledger') /\ (~profile.exists => Enrolling(g)) /\ g.op # "idle"
            /\ g.op # "upgrade" => HasKind(g.todo, "totals")
            /\ g.op = "award" => WillRead(g.todo, Evaluations)
<1>1. CASE Award(p)
  <2>1. PICK a \in Activities : Start(p, "award", AwardScript(a), {Activity(a)})
    BY <1>1 DEF Award, Durable
  <2> DEFINE g == frame'[p]
             s == AwardScript(a)
  <2>2. /\ frame[p].op = "idle" /\ \A q \in Processes \ {p} : frame'[q] = frame[q]
        /\ g.op = "award" /\ g.todo = s /\ g.owed = {Activity(a)} /\ g.base = Unset
        /\ g.total = {} /\ g.longest = 0 /\ g.badges = 0 /\ g.seen = Unseen
        /\ g.made = FALSE
        /\ UNCHANGED <<today, done, store, history>>
    BY <2>1, StartGives
  <2>3. /\ Opens(s) /\ RankLater(s) /\ WillRead(s, Evaluations) /\ HeadIs(s, {"totals"})
        /\ \A i \in DOMAIN s : s[i][1] \in {"create", "rank"} => s[i][2] = a
        /\ \A i, j \in DOMAIN s : s[i][1] = "create" /\ s[j][1] = "create" => i = j
        /\ HasKind(s, "totals")
    BY AwardOpens
  <2> HIDE DEF g, s
  <2>4. AwardHolds(g, ledger')
    BY <2>2, <2>3 DEF AwardHolds
  <2>5. ScriptHolds(g, ledger')
    BY <2>2, <2>3, <2>4 DEF ScriptHolds, Opens
  <2>6. Fresh(g, ledger') /\ Enrolling(g)
    BY <2>2, <2>3, <2>5 DEF Fresh, Enrolling, HeadIs
  <2> QED
    BY <2>2, <2>3, <2>6 DEF g
<1>2. CASE Read(p)
  <2>1. Start(p, "read", ReadScript, {Activity(a) : a \in Durable})
    BY <1>2 DEF Read
  <2> DEFINE g == frame'[p]
             s == ReadScript
  <2>2. /\ frame[p].op = "idle" /\ \A q \in Processes \ {p} : frame'[q] = frame[q]
        /\ g.op = "read" /\ g.todo = s /\ g.base = Unset
        /\ g.total = {} /\ g.longest = 0 /\ g.badges = 0 /\ g.seen = Unseen
        /\ g.made = FALSE
        /\ UNCHANGED <<today, done, store, history>>
    BY <2>1, StartGives
  <2>3. Opens(s) /\ HeadIs(s, {"totals"}) /\ HasKind(s, "totals") /\ ~HasKind(s, "create")
    BY ReadOpens
  <2> HIDE DEF g, s
  <2>4. ScriptHolds(g, ledger')
    BY <2>2, <2>3 DEF ScriptHolds, Opens
  <2>5. Fresh(g, ledger') /\ Enrolling(g)
    BY <2>2, <2>3, <2>4 DEF Fresh, Enrolling, HeadIs
  <2> QED
    BY <2>2, <2>3, <2>5 DEF g
<1>3. CASE Upgrade(p)
  <2> DEFINE g == frame'[p]
             s == (IF ~profile.exists THEN Recalculate \o <<<<"migrate", None>>>>
                   ELSE IF profile.current THEN <<>> ELSE Backfill(None)) \o <<Do("reply")>>
  <2>1. Start(p, "upgrade", s, {})
    BY <1>3 DEF Upgrade
  <2>2. /\ frame[p].op = "idle" /\ \A q \in Processes \ {p} : frame'[q] = frame[q]
        /\ g.op = "upgrade" /\ g.todo = s /\ g.base = Unset
        /\ g.total = {} /\ g.longest = 0 /\ g.badges = 0 /\ g.seen = Unseen
        /\ g.made = FALSE
        /\ UNCHANGED <<today, done, store, history>>
    BY <2>1, StartGives
  <2>3. Opens(s) /\ ~HasKind(s, "create") /\ (~profile.exists => HeadIs(s, {"totals"}))
    <3>1. CASE ~profile.exists
      <4>1. s = Recalculate \o <<<<"migrate", None>>>> \o <<Do("reply")>>
        BY <3>1
      <4> HIDE DEF s
      <4> QED
        BY <4>1, UpgradeOpens
    <3>2. CASE profile.exists /\ profile.current
      <4>1. s = <<>> \o <<Do("reply")>>
        BY <3>2
      <4> HIDE DEF s
      <4> QED
        BY <3>2, <4>1, UpgradeOpens
    <3>3. CASE profile.exists /\ ~profile.current
      <4>1. s = Backfill(None) \o <<Do("reply")>>
        BY <3>3
      <4> HIDE DEF s
      <4> QED
        BY <3>3, <4>1, UpgradeOpens
    <3> QED
      BY <3>1, <3>2, <3>3
  <2> HIDE DEF g, s
  <2>4. ScriptHolds(g, ledger')
    BY <2>2, <2>3 DEF ScriptHolds, Opens
  <2>5. Fresh(g, ledger') /\ (~profile.exists => Enrolling(g))
    BY <2>2, <2>3, <2>4 DEF Fresh, Enrolling, HeadIs
  <2> QED
    BY <2>2, <2>5 DEF g
<1> QED
  BY <1>1, <1>2, <1>3

LEMMA StartsKeep ==
  ASSUME AchievementsInv, AchievementsInv', ScriptInv, ValueInv, NEW p \in Processes,
         Award(p) \/ Read(p) \/ Upgrade(p)
  PROVE  ScriptInv' /\ ValueInv'
<1>1. /\ \A q \in Processes \ {p} : frame'[q] = frame[q]
      /\ Fresh(frame'[p], ledger') /\ (~profile.exists => Enrolling(frame'[p]))
      /\ UNCHANGED <<store, history>>
  BY StartsFresh
<1>2. UNCHANGED <<ledger, entry, profile, owned, unranked>>
  BY <1>1 DEF store, history
<1>3. \A q \in Processes \ {p} : SameRequest(frame[q], frame'[q])
  BY <1>1 DEF SameRequest
<1>4. unranked' \subseteq {Activity(a) : a \in Activities} \cap ledger'
  BY <1>2 DEF ValueInv, StoreKnown
<1> QED
  BY <1>1, <1>2, <1>3, <1>4, RequestsKeep

\* A step that touches no request, only the clock or what is completed.
Elsewhere == UNCHANGED <<store, frame, history>>
LEMMA ElsewhereKeeps ==
  ASSUME AchievementsInv, AchievementsInv', ScriptInv, ValueInv, Elsewhere
  PROVE  ScriptInv' /\ ValueInv'
<1>1. UNCHANGED <<ledger, entry, profile, owned, unranked>> /\ frame' = frame
  BY DEF Elsewhere, store, history
<1>2. \A q \in Processes : SameRequest(frame[q], frame'[q])
  BY <1>1 DEF SameRequest
<1>3. unranked' \subseteq {Activity(a) : a \in Activities} \cap ledger'
  BY <1>1 DEF ValueInv, StoreKnown
<1> QED
  BY <1>1, <1>2, <1>3, RequestsKeep

\* Every step is one of these.
LEMMA NextIs ==
  ASSUME AchievementsInv, [Next]_vars
  PROVE  \/ Elsewhere
         \/ \E p \in Processes : \/ Award(p) \/ Read(p) \/ Upgrade(p)
                                 \/ Reply(p) \/ Restore(p) \/ Crash(p)
                                 \/ \E k, s : Moves(p, k, s)
<1>1. CASE UNCHANGED vars
  BY <1>1 DEF vars, Elsewhere, store, history
<1>2. CASE NextDay
  BY <1>2 DEF NextDay, Elsewhere
<1>3. CASE \E a \in Activities : Complete(a)
  BY <1>3 DEF Complete, Elsewhere
<1>4. CASE \E p \in Processes : Award(p) \/ Read(p) \/ Upgrade(p) \/ Step(p) \/ Crash(p)
  BY <1>4, StepMoves
<1> QED
  BY <1>1, <1>2, <1>3, <1>4 DEF Next

LEMMA NextKeeps ==
  ASSUME AchievementsInv, ScriptInv, ValueInv, [Next]_vars
  PROVE  ScriptInv' /\ ValueInv'
<1>1. AchievementsInv'
  BY NextHolds
<1>2. CASE Elsewhere
  BY <1>1, <1>2, ElsewhereKeeps
<1>3. ASSUME NEW p \in Processes, Award(p) \/ Read(p) \/ Upgrade(p) PROVE ScriptInv' /\ ValueInv'
  BY <1>1, <1>3, StartsKeep
<1>4. ASSUME NEW p \in Processes, Reply(p) PROVE ScriptInv' /\ ValueInv'
  BY <1>1, <1>4, ReplyKeeps
<1>5. ASSUME NEW p \in Processes, Restore(p) PROVE ScriptInv' /\ ValueInv'
  BY <1>1, <1>5, RestoreKeeps
<1>6. ASSUME NEW p \in Processes, Crash(p) PROVE ScriptInv' /\ ValueInv'
  BY <1>1, <1>6, CrashKeeps
<1>7. ASSUME NEW p \in Processes, NEW k, NEW s, Moves(p, k, s) PROVE ScriptInv' /\ ValueInv'
  BY <1>1, <1>7, MovesKeepScripts, MovesKeepValues
<1> QED
  BY <1>2, <1>3, <1>4, <1>5, <1>6, <1>7, NextIs

LEMMA InitKnows == Init => ScriptInv /\ ValueInv
<1> SUFFICES ASSUME Init PROVE ScriptInv /\ ValueInv
  OBVIOUS
<1>1. \A p \in Processes : frame[p] = Idle
  BY DEF Init
<1>2. AchievementsInv
  BY InitHolds
<1>3. XpOf(ledger) \in Nat /\ XpOf({}) = XpOf(ledger)
  BY <1>2, XpGrows DEF Init, AchievementsInv, LedgerHolds
<1>4. Owned = {} /\ Cardinality(Owned) = 0
  <2>1. Owned = {}
    BY DEF Owned, Init
  <2> QED
    BY <2>1, FS_EmptySet
<1>5. ASSUME NEW p \in Processes
      PROVE  ScriptHolds(frame[p], ledger) /\ KnownHolds(frame[p], ledger, Cardinality(Owned))
             /\ Enrolling(frame[p])
  <2>1. Fresh(Idle, ledger) /\ Idle.todo = <<>> /\ frame[p] = Idle
    BY <1>1, IdleFresh
  <2>2. KnownHolds(Idle, ledger, 0)
    BY <1>3, <2>1, FreshKnows
  <2> QED
    BY <1>4, <2>1, <2>2 DEF Fresh, Enrolling
<1>6. LR({}) = 0
  <2>1. DaysOf({}) = {}
    BY DEF DaysOf
  <2> QED
    BY <2>1, NoRun DEF LR
<1>7. ProfileKnown
  BY <1>4, <1>5, <1>6 DEF ProfileKnown, Init
<1>8. StoreKnown
  BY <1>3, <1>4 DEF StoreKnown, Init, Hows, Unset
<1> QED
  BY <1>5, <1>7, <1>8 DEF ScriptInv, ValueInv

-----------------------------------------------------------------------------
(* The profile: while it lags behind the ledger, a request that has not    *)
(* died will recalculate it.                                               *)

Repairs(f) ==
  /\ f.made
  /\ \/ HeadIs(f.todo, {"repaired"})
     \/ HeadIs(f.todo, {"restore"}) /\ 2 \in DOMAIN f.todo /\ f.todo[2][1] = "repaired"
Tends(f, l, n) ==
  \/ HasKind(f.todo, "totals")
  \/ Repairs(f)
  \/ /\ f.total = l
     /\ HeadIs(f.todo, {"dates", "ownerships"}) \/ (HeadIs(f.todo, {"project"}) /\ f.badges = n)
Shows == profile.shows = ledger /\ profile.badges = Cardinality(Owned)
Undisturbed ==
  ~unsettled \/ \E p \in Processes : frame[p].clean /\ frame[p].op \notin {"idle", "upgrade"}
ProfileTended ==
  Undisturbed =>
    ~profile.exists \/ Shows \/ \E p \in Processes : Tends(frame[p], ledger, Cardinality(Owned))

\* A request that is about to reply has nothing else to do, nor has one that is idle.
LEMMA ReplyAlone ==
  ASSUME AchievementsInv, ScriptInv, NEW p \in Processes,
         frame[p].op = "idle" \/ At(p, "reply")
  PROVE  LET t == frame[p].todo
         IN /\ \A i \in DOMAIN t : t[i][1] = "reply"
            /\ ~HasKind(t, "totals") /\ ~Repairs(frame[p])
            /\ \A k : HeadIs(t, {k}) => k = "reply"
<1> DEFINE t == frame[p].todo
<1>1. IsScript(t) /\ ReplyLast(t)
  BY DEF AchievementsInv, FramesHold, FrameHolds, FrameShape, Good
<1>2. frame[p].op = "idle" => t = <<>>
  BY DEF ScriptInv, ScriptHolds
<1>3. \A i \in DOMAIN t : t[i][1] = "reply"
  <2>1. CASE t = <<>>
    BY <2>1
  <2>2. CASE t # <<>> /\ Head(t)[1] = "reply"
    <3>1. DOMAIN t = 1..Len(t) /\ Len(t) \in Nat
      BY <1>1, ScriptFacts
    <3>2. Head(t) = t[1] /\ 1 \in DOMAIN t
      BY <1>1, <2>2, RestFacts
    <3>3. Len(t) = 1
      BY <1>1, <2>2, <3>2 DEF ReplyLast
    <3> HIDE DEF t
    <3> QED
      BY <2>2, <3>1, <3>2, <3>3
  <2> QED
    BY <1>2, <2>1, <2>2 DEF At
<1>4. \A k : HeadIs(t, {k}) => k = "reply"
  <2>1. t # <<>> => Head(t) = t[1] /\ 1 \in DOMAIN t
    BY <1>1, RestFacts
  <2> HIDE DEF t
  <2> QED
    BY <1>3, <2>1 DEF HeadIs
<1>5. ~HasKind(t, "totals")
  BY <1>3 DEF HasKind
<1>6. ~Repairs(frame[p])
  BY <1>4 DEF Repairs
<1> QED
  BY <1>3, <1>4, <1>5, <1>6

LEMMA OwnedCounted == Cardinality(Owned) \in Nat /\ IsFiniteSet(Owned)
<1>1. IsFiniteSet(Badges) /\ Owned \subseteq Badges
  BY RewardsAssumption DEF Owned
<1>2. IsFiniteSet(Owned)
  BY <1>1, FS_Subset
<1>3. Cardinality(Owned) \in Nat
  BY <1>2, FS_CardinalityType
<1> QED
  BY <1>2, <1>3

\* The call of a request that tends the profile: it tends it still, or the profile shows all.
LEMMA TendsGoesOn ==
  ASSUME AchievementsInv, ScriptInv, ValueInv, NEW p \in Processes, NEW k, NEW s, Moves(p, k, s),
         ledger' = ledger, owned' = owned, profile.exists,
         Tends(frame[p], ledger, Cardinality(Owned))
  PROVE  Tends(frame'[p], ledger, Cardinality(Owned)) \/ Shows'
<1> DEFINE f == frame[p]
           g == frame'[p]
           t == f.todo
           n == Cardinality(Owned)
<1>1. /\ t # <<>> /\ Head(t)[1] = k /\ IsScript(t) /\ IsScript(s) /\ g.todo = Pushed(s, t)
  BY MoveFacts
<1>2. /\ g.total = IF k = "totals" THEN ledger ELSE IF Answers(k, s) THEN {} ELSE f.total
      /\ g.badges = IF k = "ownerships" THEN n ELSE IF Answers(k, s) THEN 0 ELSE f.badges
      /\ k \notin {"reconcile", "repaired"} \cup Evaluations => g.made = f.made
  BY DEF Moves, Knows
<1>3. k \in {"totals", "dates", "ownerships", "enroll", "restore"} => s = <<>>
  BY DEF Moves, Projects
<1>4. Sound(t) /\ Pushed(<<>>, t) = Tail(t)
  BY <1>1, RestFacts DEF ScriptInv, ScriptHolds
<1>5. k \in {"dates", "ownerships", "restore"} => ~Answers(k, s)
  BY DEF Answers
<1>6. k = "repaired" /\ f.made => HasKind(s, "totals")
  BY DEF Moves, Leads
<1> HIDE DEF g, t
<1>7. CASE HasKind(t, "totals")
  <2>1. k = "totals" \/ HasKind(g.todo, "totals")
    BY <1>1, <1>7, AheadPush
  <2>2. ASSUME k = "totals" PROVE HeadIs(g.todo, {"dates"}) /\ g.total = ledger
    <3>1. g.todo = Tail(t)
      BY <1>1, <1>3, <1>4, <2>2
    <3> QED
      BY <1>1, <1>2, <1>4, <2>2, <3>1, ReadingGoesOn
  <2> QED
    BY <2>1, <2>2 DEF Tends, HeadIs, g
<1>8. CASE Repairs(f)
  <2>1. f.made /\ (k = "repaired" \/ (k = "restore" /\ 2 \in DOMAIN t /\ t[2][1] = "repaired"))
    BY <1>1, <1>8 DEF Repairs, HeadIs, t
  <2>2. CASE k = "repaired"
    BY <1>1, <1>6, <2>1, <2>2, AheadPush DEF Tends, g
  <2>3. CASE k = "restore" /\ 2 \in DOMAIN t /\ t[2][1] = "repaired"
    <3>1. g.todo = Tail(t)
      BY <1>1, <1>3, <1>4, <2>3
    <3>2. HeadIs(g.todo, {"repaired"})
      BY <1>1, <2>3, <3>1, RestFacts DEF HeadIs
    <3>3. g.made
      BY <1>2, <2>1, <2>3 DEF Evaluations
    <3> QED
      BY <3>2, <3>3 DEF Tends, Repairs, g
  <2> QED
    BY <2>1, <2>2, <2>3
<1>9. CASE f.total = ledger /\ k \in {"dates", "ownerships"}
  <2>1. g.todo = Tail(t) /\ g.total = ledger
    BY <1>1, <1>2, <1>3, <1>4, <1>5, <1>9
  <2>2. CASE k = "dates"
    <3>1. HeadIs(g.todo, {"ownerships"})
      BY <1>1, <1>4, <2>1, <2>2, ReadingGoesOn
    <3> QED
      BY <2>1, <3>1 DEF Tends, HeadIs, g
  <2>3. CASE k = "ownerships"
    <3>1. HeadIs(g.todo, {"project"}) /\ g.badges = n
      BY <1>1, <1>2, <1>4, <2>1, <2>3, ReadingGoesOn
    <3> QED
      BY <2>1, <3>1 DEF Tends, g
  <2> QED
    BY <1>9, <2>2, <2>3
<1>10. CASE f.total = ledger /\ k = "project" /\ f.badges = n
  <2>1. profile' = IF Newer(p) THEN Projection(p) ELSE profile
    BY <1>10 DEF Moves, Projects
  <2>2. Owned' = Owned
    BY DEF Owned
  <2>3. CASE Newer(p)
    BY <1>10, <2>1, <2>2, <2>3 DEF Projection, Shows
  <2>4. CASE ~Newer(p)
    <3>1. f.total \subseteq profile.shows /\ profile.shows \subseteq ledger
      BY <2>4, OlderShowsLess DEF AchievementsInv, Chain
    <3>2. profile.shows = ledger
      BY <1>10, <3>1
    <3>3. ~(profile.badges <= f.badges)
      BY <1>10, <2>4, <3>2 DEF Newer
    <3>4. profile.badges \in Nat /\ profile.badges <= n /\ n \in Nat
      BY OwnedCounted DEF ValueInv, ProfileKnown
    <3> QED
      BY <1>10, <3>3, <3>4
  <2> QED
    BY <2>3, <2>4
<1> QED
  <2>1. \/ HasKind(t, "totals") \/ Repairs(f)
        \/ f.total = ledger /\ (HeadIs(t, {"dates", "ownerships"}) \/ (HeadIs(t, {"project"}) /\ f.badges = n))
    BY DEF Tends, t
  <2> QED
    BY <1>1, <1>7, <1>8, <1>9, <1>10, <2>1 DEF HeadIs

\* A recalculation of what the profile shows already, and the creation of the first one.
LEMMA ShowsStays ==
  ASSUME AchievementsInv, ScriptInv, ValueInv, NEW p \in Processes, NEW k, NEW s, Moves(p, k, s),
         ledger' = ledger, owned' = owned, ~profile.exists \/ Shows
  PROVE  ~profile'.exists \/ Shows'
<1> DEFINE f == frame[p]
           n == Cardinality(Owned)
<1>1. profile' = IF \/ k = "project" /\ profile.exists /\ Newer(p)
                    \/ k = "enroll" /\ ~profile.exists
                 THEN Projection(p)
                 ELSE IF k = "stamp" THEN [profile EXCEPT !.current = TRUE] ELSE profile
  BY DEF Moves, Projects
<1>2. f.total \subseteq ledger /\ profile.shows \subseteq ledger
  BY DEF AchievementsInv, Chain
<1>3. f.badges \in Nat /\ f.badges <= n /\ n \in Nat
  BY OwnedCounted DEF ValueInv, KnownHolds
<1>4. Owned' = Owned
  BY DEF Owned
<1>5. CASE k = "project" /\ profile.exists /\ Newer(p)
  <2>1. profile.shows \subseteq f.total
    BY <1>5, NewerShowsMore
  <2>2. f.total = ledger /\ profile.badges = n
    BY <1>2, <1>5, <2>1 DEF Shows
  <2>3. profile.badges <= f.badges
    <3>1. profile.shows = f.total
      BY <1>2, <1>5, <2>2 DEF Shows
    <3>2. IsFiniteSet(f.total)
      BY <1>2, FS_Subset DEF AchievementsInv, LedgerHolds
    <3>3. Cardinality(f.total) \in Nat
      BY <3>2, FS_CardinalityType
    <3> QED
      BY <1>5, <3>1, <3>3 DEF Newer
  <2>4. f.badges = n
    BY <1>3, <2>2, <2>3
  <2> QED
    BY <1>1, <1>4, <1>5, <2>2, <2>4 DEF Projection, Shows
<1>6. CASE k = "enroll" /\ ~profile.exists
  <2>1. ledger = {} /\ Owned = {}
    BY <1>6 DEF ValueInv, ProfileKnown
  <2>2. n = 0 /\ f.total = ledger
    BY <1>2, <2>1, FS_EmptySet
  <2>3. f.badges = n
    BY <1>3, <2>2
  <2> QED
    BY <1>1, <1>4, <1>6, <2>2, <2>3 DEF Projection, Shows
<1>7. CASE ~(\/ k = "project" /\ profile.exists /\ Newer(p)
             \/ k = "enroll" /\ ~profile.exists)
  <2>1. profile' = profile \/ profile' = [profile EXCEPT !.current = TRUE]
    BY <1>1, <1>7
  <2>2. DOMAIN profile = {"exists", "shows", "longest", "badges", "current"}
    BY DEF AchievementsInv, ProfileShape
  <2>3. profile'.exists = profile.exists /\ profile'.shows = profile.shows /\ profile'.badges = profile.badges
    BY <2>1, <2>2
  <2> QED
    BY <1>4, <2>3 DEF Shows
<1> QED
  BY <1>5, <1>6, <1>7

LEMMA MovesTendProfile ==
  ASSUME AchievementsInv, AchievementsInv', ScriptInv, ValueInv, ProfileTended,
         NEW p \in Processes, NEW k, NEW s, Moves(p, k, s)
  PROVE  ProfileTended'
<1> DEFINE n == Cardinality(Owned)
           t == frame[p].todo
           u == frame'[p].todo
<1>1. /\ t # <<>> /\ Head(t)[1] = k /\ IsScript(t) /\ IsScript(s) /\ u = Pushed(s, t)
  BY MoveFacts
<1>2. Sound(t) /\ PaidLater(t)
  BY DEF ScriptInv, ScriptHolds
<1>3. /\ \A q \in Processes \ {p} : frame'[q] = frame[q]
      /\ frame'[p].op = frame[p].op /\ frame'[p].clean = frame[p].clean
      /\ unsettled' = unsettled
  BY DEF Moves, Goes
<1> SUFFICES ASSUME Undisturbed'
             PROVE  \/ ~profile'.exists \/ Shows'
                    \/ \E q \in Processes : Tends(frame'[q], ledger', Cardinality(Owned'))
  BY DEF ProfileTended
<1>4. Undisturbed
  BY <1>3 DEF Undisturbed
<1>5. /\ k \notin {"create", "day", "medal"} => ledger' = ledger
      /\ k \notin Hows => owned' = owned
  BY DEF Moves, Writes
<1>6. CASE k \in {"create", "day", "medal"} \cup Hows
  <2> HIDE DEF t, u
  <2>1. k \in {"create", "day"} => WillRead(u, Evaluations)
    BY <1>1, <1>2, HeadLeads
  <2>2. k \in Paying => HasKind(u, "totals")
    BY <1>1, <1>2, HeadLeads
  <2>3. HasKind(u, "totals")
    BY <1>6, <2>1, <2>2 DEF WillRead, Rereads, HasKind, Paying
  <2>4. Tends(frame'[p], ledger', Cardinality(Owned'))
    BY <2>3 DEF Tends, u
  <2> QED
    BY <2>4
<1>7. CASE k \notin {"create", "day", "medal"} \cup Hows
  <2>1. ledger' = ledger /\ owned' = owned /\ Owned' = Owned
    BY <1>5, <1>7 DEF Owned
  <2>2. CASE ~profile.exists \/ Shows
    BY <2>1, <2>2, ShowsStays
  <2>3. CASE profile.exists /\ \E q \in Processes : Tends(frame[q], ledger, n)
    <3>1. PICK q \in Processes : Tends(frame[q], ledger, n)
      BY <2>3
    <3>2. CASE q = p
      BY <2>1, <2>3, <3>1, <3>2, TendsGoesOn
    <3>3. CASE q # p
      <4>1. frame'[q] = frame[q]
        BY <1>3, <3>3
      <4>2. Tends(frame'[q], ledger', Cardinality(Owned'))
        BY <2>1, <3>1, <4>1
      <4> QED
        BY <4>2
    <3> QED
      BY <3>2, <3>3
  <2> QED
    BY <1>4, <2>2, <2>3 DEF ProfileTended
<1> QED
  BY <1>6, <1>7

\* A repair that booked something leads to a recalculation and to an evaluation.
LEMMA RestoreLeads ==
  ASSUME AchievementsInv, ScriptInv, NEW p \in Processes, NEW r, Repays(p, r), r \notin ledger,
         frame[p].todo # <<>>, Head(frame[p].todo)[1] = "restore"
  PROVE  Repairs(frame'[p]) \/ WillRead(frame'[p].todo, Evaluations)
<1> DEFINE t == frame[p].todo
<1>1. IsScript(t) /\ Sound(t)
  BY DEF ScriptInv, ScriptHolds, AchievementsInv, FramesHold, FrameHolds, FrameShape, Good
<1>2. 1 \in DOMAIN t /\ t[1] = Head(t) /\ SoundAt(t, 1)
  BY <1>1, RestFacts DEF Sound
<1>3. /\ 1 + 1 \in DOMAIN t
      /\ t[1 + 1][1] = "repaired" \/ Rereads(t, 1 + 1, Evaluations)
  BY <1>2 DEF SoundAt
<1>4. frame'[p].todo = t /\ frame'[p].made
  BY DEF Repays, SameRequest
<1>5. CASE t[1 + 1][1] = "repaired"
  BY <1>3, <1>4, <1>5 DEF Repairs, HeadIs
<1>6. CASE Rereads(t, 1 + 1, Evaluations)
  BY <1>3, <1>4, <1>6 DEF WillRead
<1> QED
  BY <1>3, <1>5, <1>6

LEMMA RestoreTendsProfile ==
  ASSUME AchievementsInv, ScriptInv, ProfileTended, NEW p \in Processes, Restore(p)
  PROVE  ProfileTended'
<1> DEFINE f == frame[p]
           g == frame'[p]
           n == Cardinality(Owned)
<1>1. f.todo # <<>> /\ Head(f.todo)[1] = "restore" /\ \E r : Repays(p, r)
  BY RestoreRepays
<1>2. PICK r : Repays(p, r)
  BY <1>1
<1>3. /\ \A q \in Processes \ {p} : frame'[q] = frame[q]
      /\ SameRequest(f, g) /\ g.clean = f.clean /\ g.made = (f.made \/ r \notin ledger)
      /\ UNCHANGED <<profile, owned, unsettled>> /\ ledger' = ledger \cup {r}
  BY <1>2 DEF Repays
<1>4. Owned' = Owned /\ (Undisturbed' => Undisturbed)
  BY <1>3 DEF Owned, Undisturbed, SameRequest
<1>5. CASE r \notin ledger
  <2>1. Repairs(g) \/ WillRead(g.todo, Evaluations)
    BY <1>1, <1>2, <1>5, RestoreLeads
  <2> HIDE DEF f, g
  <2> QED
    BY <2>1 DEF ProfileTended, Tends, WillRead, Rereads, HasKind, g
<1>6. CASE r \in ledger
  <2>1. ledger' = ledger
    BY <1>3, <1>6
  <2>2. \A q \in Processes : Tends(frame[q], ledger, n) => Tends(frame'[q], ledger, n)
    BY <1>3 DEF SameRequest, Tends, Repairs
  <2> QED
    BY <1>3, <1>4, <2>1, <2>2 DEF ProfileTended, Shows
<1> QED
  BY <1>5, <1>6

\* What ends tends nothing, and what begins undisturbed will recalculate.
LEMMA ReplyTendsProfile ==
  ASSUME AchievementsInv, ScriptInv, ProfileTended, NEW p \in Processes, Reply(p)
  PROVE  ProfileTended'
<1>1. /\ At(p, "reply") /\ frame' = [frame EXCEPT ![p] = Idle]
      /\ UNCHANGED <<ledger, profile, owned>>
      /\ unsettled' = (unsettled /\ ~(frame[p].clean /\ frame[p].op # "upgrade"))
  BY DEF Reply, store
<1>2. frame'[p] = Idle /\ \A q \in Processes \ {p} : frame'[q] = frame[q]
  BY <1>1 DEF AchievementsInv, FramesHold
<1>3. frame[p].op # "idle"
  BY <1>1 DEF ScriptInv, ScriptHolds, At
<1>4. Undisturbed' => Undisturbed
  <2>1. Idle.op = "idle"
    BY DEF Idle
  <2>2. ASSUME NEW q \in Processes, frame'[q].clean /\ frame'[q].op \notin {"idle", "upgrade"}
        PROVE  frame[q].clean /\ frame[q].op \notin {"idle", "upgrade"}
    BY <1>2, <2>1, <2>2
  <2>3. ASSUME ~unsettled', unsettled
        PROVE  frame[p].clean /\ frame[p].op \notin {"idle", "upgrade"}
    BY <1>1, <1>3, <2>3
  <2> QED
    BY <2>2, <2>3 DEF Undisturbed
<1>5. ~Tends(frame[p], ledger, Cardinality(Owned))
  BY <1>1, ReplyAlone DEF Tends, HeadIs
<1>6. Owned' = Owned
  BY <1>1 DEF Owned
<1> QED
  BY <1>1, <1>2, <1>4, <1>5, <1>6 DEF ProfileTended, Shows

LEMMA StartTendsProfile ==
  ASSUME AchievementsInv, ScriptInv, ProfileTended, NEW p \in Processes,
         Award(p) \/ Read(p) \/ Upgrade(p)
  PROVE  ProfileTended'
<1>1. /\ frame[p].op = "idle" /\ \A q \in Processes \ {p} : frame'[q] = frame[q]
      /\ frame'[p].op # "upgrade" => HasKind(frame'[p].todo, "totals")
      /\ UNCHANGED <<ledger, profile, owned, unsettled>>
  BY StartsFresh DEF store, history
<1>2. ~Tends(frame[p], ledger, Cardinality(Owned))
  BY <1>1, ReplyAlone DEF Tends, HeadIs
<1>3. Owned' = Owned
  BY <1>1 DEF Owned
<1>4. CASE frame'[p].op # "upgrade"
  BY <1>1, <1>4 DEF ProfileTended, Tends
<1>5. CASE frame'[p].op = "upgrade"
  <2>1. Undisturbed' => Undisturbed
    BY <1>1, <1>5 DEF Undisturbed
  <2> QED
    BY <1>1, <1>2, <1>3, <2>1 DEF ProfileTended, Shows
<1> QED
  BY <1>4, <1>5

\* A crash disturbs every request.
LEMMA CrashDisturbs ==
  ASSUME AchievementsInv, NEW p \in Processes, Crash(p)
  PROVE  /\ unsettled' /\ unrewarded' /\ \A q \in Processes : frame'[q].clean => frame'[q].op = "idle"
         /\ frame'[p] = Idle
         /\ \A q \in Processes \ {p} : SameRequest(frame[q], frame'[q]) /\ frame'[q].made = frame[q].made
<1>1. frame' = [q \in Processes |-> IF q = p THEN Idle
                                    ELSE [frame[q] EXCEPT !.clean = frame[q].op = "idle"]]
  BY DEF Crash
<1>2. \A q \in Processes : DOMAIN frame[q] = FrameFields
  BY DEF AchievementsInv, FramesHold, FrameHolds, FrameShape
<1>3. frame'[p] = Idle
  BY <1>1
<1>4. ASSUME NEW q \in Processes, q # p
      PROVE  SameRequest(frame[q], frame'[q]) /\ frame'[q].made = frame[q].made
             /\ (frame'[q].clean => frame'[q].op = "idle")
  <2>1. frame'[q] = [frame[q] EXCEPT !.clean = frame[q].op = "idle"]
    BY <1>1, <1>4
  <2> QED
    BY <1>2, <2>1 DEF SameRequest, FrameFields
<1> QED
  BY <1>3, <1>4 DEF Crash, Idle

LEMMA NextTendsProfile ==
  ASSUME AchievementsInv, ScriptInv, ValueInv, ProfileTended, [Next]_vars
  PROVE  ProfileTended'
<1>1. AchievementsInv'
  BY NextHolds
<1>2. CASE Elsewhere
  BY <1>2 DEF Elsewhere, store, history, ProfileTended, Undisturbed, Shows, Owned
<1>3. ASSUME NEW p \in Processes, Award(p) \/ Read(p) \/ Upgrade(p) PROVE ProfileTended'
  BY <1>3, StartTendsProfile
<1>4. ASSUME NEW p \in Processes, Reply(p) PROVE ProfileTended'
  BY <1>4, ReplyTendsProfile
<1>5. ASSUME NEW p \in Processes, Restore(p) PROVE ProfileTended'
  BY <1>5, RestoreTendsProfile
<1>6. ASSUME NEW p \in Processes, Crash(p) PROVE ProfileTended'
  BY <1>6, CrashDisturbs DEF ProfileTended, Undisturbed
<1>7. ASSUME NEW p \in Processes, NEW k, NEW s, Moves(p, k, s) PROVE ProfileTended'
  BY <1>1, <1>7, MovesTendProfile
<1> QED
  BY <1>2, <1>3, <1>4, <1>5, <1>6, <1>7, NextIs

LEMMA TendedIsSettled ==
  ASSUME AchievementsInv, ScriptInv, ValueInv, ProfileTended
  PROVE  ProfileSettled
<1> SUFFICES ASSUME AtRest, ~unsettled, profile.exists
             PROVE  /\ profile.shows = ledger
                    /\ profile.longest =
                         Max({0} \cup {Cardinality(x[1]..x[2]) :
                                         x \in {y \in Days \X Days : y[1]..y[2] \subseteq DaysOf(ledger)}})
                    /\ profile.badges = Cardinality(Owned)
  BY DEF ProfileSettled
<1>1. \A p \in Processes : ~Tends(frame[p], ledger, Cardinality(Owned))
  BY ReplyAlone DEF AtRest, Tends, HeadIs
<1>2. Shows
  BY <1>1 DEF ProfileTended, Undisturbed
<1>3. /\ profile.longest \in Nat /\ profile.longest <= LR(ledger)
      /\ profile.longest >= LR(profile.shows) /\ LR(ledger) \in Nat
  BY RunGrows DEF ValueInv, ProfileKnown
<1>4. profile.longest = LR(ledger)
  BY <1>2, <1>3 DEF Shows
<1>5. profile.longest = LongestRun(DaysOf(ledger))
  BY <1>4 DEF LR
<1> QED
  BY <1>2, <1>5, LongestRunIs DEF Shows

-----------------------------------------------------------------------------
(* The badges: for one that the ledger reaches, a request that has not     *)
(* died will evaluate it, own it, pay it and celebrate it.                 *)

Honours(f, b) ==
  \/ WillRead(f.todo, Evaluations)
  \/ Repairs(f)
  \/ /\ InRead(f.todo, Evaluations)
     /\ b \in Streaks => LR(f.total) >= Target[b] /\ ~HeadIs(f.todo, {"enroll"})
  \/ HeadIs(f.todo, Evaluations) /\ (b \in Streaks => f.seen.longest >= Target[b])
  \/ \E how \in Hows : HasCall(f.todo, <<how, b>>)
Celebrates(f, r, e) == HasCall(f.todo, <<"event", r>>) \/ (r \in e /\ HasCall(f.todo, <<"notify", r>>))

Awarding == ~unrewarded \/ \E p \in Processes : frame[p].clean /\ frame[p].op = "award"
BadgeTended(b) ==
  /\ owned[b] # "no" \/ \E p \in Processes : Honours(frame[p], b)
  /\ \/ Badge(b) \in ledger
     \/ \E p \in Processes : Honours(frame[p], b) \/ HasCall(frame[p].todo, <<"medal", b>>)
  /\ owned[b] = "live" =>
       \/ Badge(b) \in events \cap notices
       \/ \E p \in Processes : \/ Honours(frame[p], b) \/ HasCall(frame[p].todo, <<"tell", b>>)
                               \/ Celebrates(frame[p], Badge(b), events)
BadgesTended == Awarding => \A b \in Badges : Deserved(b, ledger) => BadgeTended(b)

LEMMA NothingDeserved ==
  ASSUME NEW b \in Badges
  PROVE  ~Deserved(b, {})
<1>1. DaysOf({}) = {} /\ {a \in Activities : Activity(a) \in {}} = {}
  BY DEF DaysOf
<1>2. LR({}) = 0
  BY <1>1, NoRun DEF LR
<1>3. Cardinality({a \in Activities : Activity(a) \in {}}) = 0
  BY <1>1, FS_EmptySet
<1>4. Target[b] \in Nat \ {0}
  BY RewardsAssumption
<1>5. Progress(b, {}, 0) = 0
  BY <1>3 DEF Progress
<1> QED
  BY <1>2, <1>4, <1>5 DEF Deserved, Reached

\* The transaction of a badge brings no badge.
LEMMA MedalDeserves ==
  ASSUME NEW l, NEW b, NEW c, Deserved(b, l \cup {Badge(c)})
  PROVE  Deserved(b, l)
<1> DEFINE m == l \cup {Badge(c)}
<1>1. DaysOf(m) = DaysOf(l)
  BY DEF DaysOf, Day, Badge
<1>2. {a \in Activities : Activity(a) \in m} = {a \in Activities : Activity(a) \in l}
  BY ActivityFacts
<1>3. LR(m) = LR(l)
  BY <1>1 DEF LR
<1> HIDE DEF m
<1>4. \A x : Progress(b, m, x) = Progress(b, l, x)
  BY <1>2 DEF Progress
<1> QED
  BY <1>3, <1>4 DEF Deserved, Reached, m

\* Own it, then pay it, then tell of it.
LEMMA PaidNext ==
  ASSUME NEW s, NEW t, IsScript(s), IsScript(t), t # <<>>, Sound(t), Head(t)[1] \in Hows,
         NEW u, u = Pushed(s, t)
  PROVE  HasCall(u, <<"medal", Head(t)[2]>>) /\ HasCall(u, <<"tell", Head(t)[2]>>)
<1> DEFINE b == Head(t)[2]
           n == Len(s) - 1
<1>1. n \in Int /\ Suffix(t, 2, u, n) /\ 1 \in DOMAIN t /\ Head(t) = t[1]
  BY PushFacts
<1>2. 2 \in DOMAIN t /\ t[2] = <<"medal", b>>
  <2>1. SoundAt(t, 1)
    BY <1>1 DEF Sound
  <2> QED
    BY <1>1, <2>1 DEF SoundAt
<1>3. 3 \in DOMAIN t /\ t[3] = <<"tell", b>>
  <2>1. SoundAt(t, 2) /\ t[2][1] = "medal" /\ t[2][2] = b
    BY <1>2 DEF Sound
  <2> QED
    <3>1. 2 + 1 \in DOMAIN t /\ t[2 + 1] = <<"tell", b>>
      BY <2>1 DEF SoundAt
    <3> QED
      BY <3>1
<1> HIDE DEF b, n
<1>4. 2 + n \in DOMAIN u /\ u[2 + n] = t[2]
  BY <1>1, <1>2 DEF Suffix
<1>5. 3 + n \in DOMAIN u /\ u[3 + n] = t[3]
  BY <1>1, <1>3 DEF Suffix
<1> QED
  BY <1>2, <1>3, <1>4, <1>5 DEF HasCall, b

\* What the projection of a recalculation answers is no less than what it read.
LEMMA AnswerCovers ==
  ASSUME AchievementsInv, AchievementsInv', ScriptInv, ValueInv, NEW p \in Processes, NEW k, NEW s,
         Moves(p, k, s), k = "project", profile.exists
  PROVE  /\ s = <<>> /\ Answers(k, s) /\ frame[p].total \subseteq profile'.shows
         /\ frame'[p].seen.xp = XpOf(profile'.shows) /\ frame'[p].seen.longest = profile'.longest
         /\ LR(frame[p].total) <= profile'.longest /\ XpOf(frame[p].total) <= XpOf(profile'.shows)
         /\ LR(frame[p].total) \in Nat /\ profile'.longest \in Nat
         /\ XpOf(frame[p].total) \in Nat /\ XpOf(profile'.shows) \in Nat
<1>1. s = <<>> /\ profile' = IF Newer(p) THEN Projection(p) ELSE profile
  BY DEF Moves, Projects
<1>2. Answers(k, s)
  BY <1>1 DEF Answers
<1>3. frame'[p].seen.xp = XpOf(profile'.shows) /\ frame'[p].seen.longest = profile'.longest
  BY <1>2 DEF Moves, Knows
<1>4. frame[p].total \subseteq profile'.shows
  <2>1. CASE Newer(p)
    BY <1>1, <2>1 DEF Projection
  <2>2. CASE ~Newer(p)
    BY <1>1, <2>2, OlderShowsLess
  <2> QED
    BY <2>1, <2>2
<1>5. profile'.shows \subseteq ledger' /\ ledger' \subseteq References /\ IsFiniteSet(ledger')
  BY DEF AchievementsInv, Chain, LedgerHolds
<1>6. profile'.shows \subseteq References /\ IsFiniteSet(profile'.shows)
  BY <1>5, FS_Subset
<1>7. /\ XpOf(frame[p].total) <= XpOf(profile'.shows) /\ XpOf(frame[p].total) \in Nat
      /\ XpOf(profile'.shows) \in Nat
  BY <1>4, <1>6, XpGrows
<1>8. LR(frame[p].total) \in Nat /\ LR(profile'.shows) \in Nat /\ LR(frame[p].total) <= LR(profile'.shows)
  BY <1>4, RunGrows
<1>9. profile'.longest \in Nat /\ profile'.longest >= LR(profile'.shows)
  BY MovesProject
<1>10. LR(frame[p].total) <= profile'.longest
  BY <1>8, <1>9
<1> QED
  BY <1>1, <1>2, <1>3, <1>4, <1>7, <1>8, <1>9, <1>10

LEMMA HonoursGoesOn ==
  ASSUME AchievementsInv, AchievementsInv', ScriptInv, ValueInv, NEW p \in Processes, NEW k, NEW s,
         Moves(p, k, s), NEW b \in Badges, Deserved(b, ledger), Honours(frame[p], b)
  PROVE  Honours(frame'[p], b) \/ (k \in Hows /\ Arg(p) = b)
<1> DEFINE f == frame[p]
           g == frame'[p]
           t == f.todo
           u == g.todo
<1>1. /\ t # <<>> /\ Head(t)[1] = k /\ Arg(p) = Head(t)[2] /\ IsScript(t) /\ IsScript(s)
      /\ u = Pushed(s, t)
  BY MoveFacts
<1>2. /\ g.total = IF k = "totals" THEN ledger ELSE IF Answers(k, s) THEN {} ELSE f.total
      /\ k \notin {"reconcile", "repaired"} \cup Evaluations => g.made = f.made
  BY DEF Moves, Knows
<1>3. k \in {"totals", "dates", "ownerships", "enroll", "restore"} => s = <<>>
  BY DEF Moves, Projects
<1>4. Sound(t) /\ Pushed(<<>>, t) = Tail(t)
  BY <1>1, RestFacts DEF ScriptInv, ScriptHolds
<1>5. k \in {"dates", "ownerships", "restore"} => ~Answers(k, s)
  BY DEF Answers
<1>6. /\ k = "repaired" /\ f.made => WillRead(s, Evaluations)
      /\ k \in Evaluations => \A c \in Badges :
           Reached(c, ledger, f.seen.longest) => \E how \in Hows : HasCall(s, <<how, c>>)
  BY DEF Moves, Leads
<1>7. k = "project" => profile.exists
  <2>1. ~profile.exists => ledger = {}
    BY DEF ValueInv, ProfileKnown
  <2> QED
    BY <2>1, NothingDeserved
<1> HIDE DEF f, g, t, u
<1>8. CASE WillRead(t, Evaluations)
  <2>1. Rereads(t, 1, Evaluations) \/ WillRead(u, Evaluations)
    BY <1>1, <1>8, AheadPush
  <2>2. ASSUME Rereads(t, 1, Evaluations) PROVE Honours(g, b)
    <3>1. k = "totals"
      BY <1>1, <2>2, RestFacts DEF Rereads
    <3>2. u = Tail(t) /\ g.total = ledger
      BY <1>1, <1>2, <1>3, <1>4, <3>1
    <3>3. HeadIs(u, {"dates"}) /\ InRead(u, Evaluations)
      BY <1>1, <1>4, <2>2, <3>1, <3>2, ReadingGoesOn
    <3>4. b \in Streaks => LR(ledger) >= Target[b]
      BY DEF Deserved, Reached, Progress
    <3> QED
      BY <3>2, <3>3, <3>4 DEF Honours, HeadIs, u
  <2> QED
    BY <2>1, <2>2 DEF Honours, u, g
<1>9. CASE Repairs(f)
  <2>1. f.made /\ (k = "repaired" \/ (k = "restore" /\ 2 \in DOMAIN t /\ t[2][1] = "repaired"))
    BY <1>1, <1>9 DEF Repairs, HeadIs, t
  <2>2. CASE k = "repaired"
    BY <1>1, <1>6, <2>1, <2>2, AheadPush DEF Honours, g, u
  <2>3. CASE k = "restore" /\ 2 \in DOMAIN t /\ t[2][1] = "repaired"
    <3>1. u = Tail(t)
      BY <1>1, <1>3, <1>4, <2>3
    <3>2. HeadIs(u, {"repaired"})
      BY <1>1, <2>3, <3>1, RestFacts DEF HeadIs
    <3>3. g.made
      BY <1>2, <2>1, <2>3 DEF Evaluations
    <3> QED
      BY <3>2, <3>3 DEF Honours, Repairs, g, u
  <2> QED
    BY <2>1, <2>2, <2>3
<1>10. CASE /\ InRead(t, Evaluations)
            /\ b \in Streaks => LR(f.total) >= Target[b] /\ ~HeadIs(t, {"enroll"})
  <2>1. k \in {"dates", "ownerships", "project", "enroll"}
    BY <1>1, <1>10 DEF InRead, HeadIs
  <2>2. CASE k \in {"dates", "ownerships"}
    <3>1. u = Tail(t) /\ g.total = f.total
      BY <1>1, <1>2, <1>3, <1>4, <1>5, <2>2
    <3>2. InRead(u, Evaluations)
      BY <1>1, <1>4, <1>10, <2>2, <3>1, ReadingGoesOn
    <3>3. HeadIs(u, {"ownerships"}) \/ HeadIs(u, {"project"})
      BY <1>1, <1>4, <2>2, <3>1, ReadingGoesOn
    <3> QED
      BY <1>10, <3>1, <3>2, <3>3 DEF Honours, HeadIs, u, g
  <2>3. CASE k = "project"
    <3>1. /\ s = <<>> /\ g.seen.longest = profile'.longest /\ LR(f.total) <= profile'.longest
          /\ LR(f.total) \in Nat /\ profile'.longest \in Nat
      BY <1>7, <2>3, AnswerCovers DEF f, g
    <3>2. u = Tail(t)
      BY <1>1, <1>4, <3>1
    <3>3. HeadIs(u, Evaluations)
      BY <1>1, <1>4, <1>10, <2>3, <3>2, ReadingGoesOn
    <3>4. Target[b] \in Nat
      BY RewardsAssumption
    <3>5. b \in Streaks => g.seen.longest >= Target[b]
      BY <1>10, <3>1, <3>4
    <3> QED
      BY <3>3, <3>5 DEF Honours, u, g
  <2>4. CASE k = "enroll"
    <3>1. u = Tail(t)
      BY <1>1, <1>3, <1>4, <2>4
    <3>2. HeadIs(u, Evaluations)
      BY <1>1, <1>4, <1>10, <2>4, <3>1, ReadingGoesOn
    <3>3. b \notin Streaks
      BY <1>1, <1>10, <2>4 DEF HeadIs
    <3> QED
      BY <3>2, <3>3 DEF Honours, u, g
  <2> QED
    BY <2>1, <2>2, <2>3, <2>4
<1>11. CASE HeadIs(t, Evaluations) /\ (b \in Streaks => f.seen.longest >= Target[b])
  <2>1. Reached(b, ledger, f.seen.longest)
    BY <1>11 DEF Deserved, Reached, Progress
  <2>2. \E how \in Hows : HasCall(s, <<how, b>>)
    BY <1>1, <1>6, <1>11, <2>1 DEF HeadIs
  <2> QED
    BY <1>1, <2>2, AheadPush DEF Honours, g, u
<1>12. CASE \E how \in Hows : HasCall(t, <<how, b>>)
  <2>1. PICK how \in Hows : HasCall(t, <<how, b>>)
    BY <1>12
  <2>2. Head(t) = <<how, b>> \/ HasCall(u, <<how, b>>)
    BY <1>1, <2>1, AheadPush
  <2> QED
    BY <1>1, <2>1, <2>2 DEF Honours, g, u
<1> QED
  BY <1>8, <1>9, <1>10, <1>11, <1>12 DEF Honours, f, t, g

LEMMA CelebratesGoesOn ==
  ASSUME AchievementsInv, ScriptInv, NEW p \in Processes, NEW k, NEW s, Moves(p, k, s), NEW r,
         Celebrates(frame[p], r, events)
  PROVE  Celebrates(frame'[p], r, events') \/ r \in events' \cap notices'
<1> DEFINE t == frame[p].todo
           u == frame'[p].todo
<1>1. /\ t # <<>> /\ Head(t)[1] = k /\ Arg(p) = Head(t)[2] /\ IsScript(t) /\ IsScript(s)
      /\ u = Pushed(s, t) /\ Sound(t)
  BY MoveFacts DEF ScriptInv, ScriptHolds
<1>2. /\ events' = IF k = "event" THEN events \cup {Arg(p)} ELSE events
      /\ notices' = IF k = "notify" THEN notices \cup {Arg(p)} ELSE notices
  BY DEF Moves, Writes
<1> HIDE DEF t, u
<1>3. CASE HasCall(t, <<"event", r>>)
  <2>1. Head(t) = <<"event", r>> \/ HasCall(u, <<"event", r>>)
    BY <1>1, <1>3, AheadPush
  <2>2. ASSUME Head(t) = <<"event", r>> PROVE r \in events' /\ HasCall(u, <<"notify", r>>)
    <3>1. Head(t)[1] = "event" /\ Head(t)[2] = r
      BY <2>2
    <3>2. HasCall(u, <<"notify", Head(t)[2]>>)
      BY <1>1, <3>1, HeadLeads
    <3> QED
      BY <1>1, <1>2, <3>1, <3>2
  <2> QED
    BY <2>1, <2>2 DEF Celebrates, u
<1>4. CASE r \in events /\ HasCall(t, <<"notify", r>>)
  <2>1. Head(t) = <<"notify", r>> \/ HasCall(u, <<"notify", r>>)
    BY <1>1, <1>4, AheadPush
  <2>2. Head(t) = <<"notify", r>> => r \in notices'
    BY <1>1, <1>2
  <2>3. r \in events'
    BY <1>2, <1>4
  <2> QED
    BY <2>1, <2>2, <2>3 DEF Celebrates, u
<1> QED
  BY <1>3, <1>4 DEF Celebrates, t

LEMMA MovesTendBadges ==
  ASSUME AchievementsInv, AchievementsInv', ScriptInv, ValueInv, BadgesTended,
         NEW p \in Processes, NEW k, NEW s, Moves(p, k, s)
  PROVE  BadgesTended'
<1> DEFINE f == frame[p]
           g == frame'[p]
           t == frame[p].todo
           u == frame'[p].todo
<1>1. /\ t # <<>> /\ Head(t)[1] = k /\ Arg(p) = Head(t)[2] /\ IsScript(t) /\ IsScript(s)
      /\ u = Pushed(s, t) /\ Sound(t)
  BY MoveFacts DEF ScriptInv, ScriptHolds
<1>2. /\ \A q \in Processes \ {p} : frame'[q] = frame[q]
      /\ frame'[p].op = frame[p].op /\ frame'[p].clean = frame[p].clean
      /\ unrewarded' = unrewarded
  BY DEF Moves, Goes
<1> SUFFICES ASSUME Awarding', NEW b \in Badges, Deserved(b, ledger')
             PROVE  BadgeTended(b)'
  BY DEF BadgesTended
<1>3. Awarding
  BY <1>2 DEF Awarding
<1>4. /\ ledger' = CASE k = "create" -> ledger \cup {Activity(Arg(p))}
                     [] k = "day" -> ledger \cup {Day(entry[Arg(p)].day)}
                     [] k = "medal" -> ledger \cup {Badge(Arg(p))}
                     [] OTHER -> ledger
      /\ events' = IF k = "event" THEN events \cup {Arg(p)} ELSE events
      /\ notices' = IF k = "notify" THEN notices \cup {Arg(p)} ELSE notices
  BY DEF Moves, Writes
<1>5. /\ owned[b] # "no" => owned'[b] = owned[b]
      /\ owned'[b] # owned[b] => k \in Hows /\ b = Arg(p)
      /\ k \in Hows => owned'[Arg(p)] # "no"
  BY MovesKeepOwned
<1>6. k = "tell" /\ owned[Arg(p)] = "live" => HasCall(s, <<"event", Badge(Arg(p))>>)
  BY DEF Moves, Leads
<1>7. \A c : HasCall(t, c) => Head(t) = c \/ HasCall(u, c)
  BY <1>1, AheadPush
<1>8. \A c : HasCall(s, c) => HasCall(u, c)
  BY <1>1, AheadPush
<1>9. CASE k \in {"create", "day"}
  <2>1. WillRead(u, Evaluations)
    BY <1>1, <1>9, HeadLeads
  <2>2. Honours(g, b)
    BY <2>1 DEF Honours
  <2> HIDE DEF g
  <2> QED
    BY <2>2 DEF BadgeTended, g
<1>10. CASE k \notin {"create", "day"}
  <2>1. Deserved(b, ledger)
    BY <1>4, <1>10, MedalDeserves
  <2>2. BadgeTended(b)
    BY <1>3, <2>1 DEF BadgesTended
  <2>3. Honours(f, b) => Honours(g, b) \/ (k \in Hows /\ Arg(p) = b)
    BY <2>1, HonoursGoesOn
  <2>4. k \in Hows /\ Arg(p) = b => HasCall(u, <<"medal", b>>) /\ HasCall(u, <<"tell", b>>)
    BY <1>1, PaidNext
  <2>5. Celebrates(f, Badge(b), events) =>
          Celebrates(g, Badge(b), events') \/ Badge(b) \in events' \cap notices'
    BY CelebratesGoesOn
  <2>6. ledger \subseteq ledger' /\ events \subseteq events' /\ notices \subseteq notices'
    BY <1>4
  <2> HIDE DEF f, g, t, u
  <2>7. ASSUME NEW q \in Processes, q # p
        PROVE  frame'[q] = frame[q]
    BY <1>2, <2>7
  <2>8. owned'[b] # "no" \/ \E q \in Processes : Honours(frame'[q], b)
    <3>1. CASE owned[b] # "no"
      BY <1>5, <3>1
    <3>2. CASE \E q \in Processes : Honours(frame[q], b)
      <4>1. PICK q \in Processes : Honours(frame[q], b)
        BY <3>2
      <4>2. CASE q = p
        BY <1>5, <2>3, <4>1, <4>2 DEF f, g
      <4>3. CASE q # p
        BY <2>7, <4>1, <4>3
      <4> QED
        BY <4>2, <4>3
    <3> QED
      BY <2>2, <3>1, <3>2 DEF BadgeTended
  <2>9. \/ Badge(b) \in ledger'
        \/ \E q \in Processes : Honours(frame'[q], b) \/ HasCall(frame'[q].todo, <<"medal", b>>)
    <3>1. CASE Badge(b) \in ledger
      BY <2>6, <3>1
    <3>2. CASE \E q \in Processes : Honours(frame[q], b) \/ HasCall(frame[q].todo, <<"medal", b>>)
      <4>1. PICK q \in Processes : Honours(frame[q], b) \/ HasCall(frame[q].todo, <<"medal", b>>)
        BY <3>2
      <4>2. CASE q # p
        BY <2>7, <4>1, <4>2
      <4>3. CASE q = p /\ Honours(f, b)
        BY <2>3, <2>4, <4>3 DEF g, u
      <4>4. CASE q = p /\ HasCall(t, <<"medal", b>>)
        <5>1. CASE HasCall(u, <<"medal", b>>)
          BY <5>1 DEF u
        <5>2. CASE Head(t) = <<"medal", b>>
          <6>1. k = "medal" /\ Arg(p) = b
            BY <1>1, <5>2
          <6> QED
            BY <1>4, <6>1
        <5> QED
          BY <1>7, <4>4, <5>1, <5>2
      <4> QED
        BY <4>1, <4>2, <4>3, <4>4 DEF f, t
    <3> QED
      BY <2>2, <3>1, <3>2 DEF BadgeTended
  <2>10. ASSUME owned'[b] = "live"
         PROVE  \/ Badge(b) \in events' \cap notices'
                \/ \E q \in Processes : \/ Honours(frame'[q], b) \/ HasCall(frame'[q].todo, <<"tell", b>>)
                                        \/ Celebrates(frame'[q], Badge(b), events')
    <3>1. CASE owned[b] # "live"
      <4>1. k \in Hows /\ b = Arg(p)
        BY <1>5, <2>10, <3>1
      <4> QED
        BY <2>4, <4>1 DEF u
    <3>2. CASE owned[b] = "live"
      <4>1. CASE Badge(b) \in events \cap notices
        BY <2>6, <4>1
      <4>2. CASE \E q \in Processes : \/ Honours(frame[q], b) \/ HasCall(frame[q].todo, <<"tell", b>>)
                                      \/ Celebrates(frame[q], Badge(b), events)
        <5>1. PICK q \in Processes : \/ Honours(frame[q], b) \/ HasCall(frame[q].todo, <<"tell", b>>)
                                     \/ Celebrates(frame[q], Badge(b), events)
          BY <4>2
        <5>2. CASE q # p
          <6>1. frame'[q] = frame[q]
            BY <2>7, <5>2
          <6>2. Celebrates(frame[q], Badge(b), events) => Celebrates(frame[q], Badge(b), events')
            BY <2>6 DEF Celebrates
          <6> QED
            BY <5>1, <6>1, <6>2
        <5>3. CASE q = p /\ Honours(f, b)
          BY <2>3, <2>4, <5>3 DEF g, u
        <5>4. CASE q = p /\ HasCall(t, <<"tell", b>>)
          <6>1. CASE HasCall(u, <<"tell", b>>)
            BY <6>1 DEF u
          <6>2. CASE Head(t) = <<"tell", b>>
            <7>1. k = "tell" /\ Arg(p) = b
              BY <1>1, <6>2
            <7>2. HasCall(u, <<"event", Badge(b)>>)
              BY <1>6, <1>8, <3>2, <7>1
            <7> QED
              BY <7>2 DEF Celebrates, u
          <6> QED
            BY <1>7, <5>4, <6>1, <6>2
        <5>5. CASE q = p /\ Celebrates(f, Badge(b), events)
          BY <2>5, <5>5 DEF g
        <5> QED
          BY <5>1, <5>2, <5>3, <5>4, <5>5 DEF f, t
      <4> QED
        BY <2>2, <3>2, <4>1, <4>2 DEF BadgeTended
    <3> QED
      BY <3>1, <3>2
  <2> QED
    BY <2>8, <2>9, <2>10 DEF BadgeTended
<1> QED
  BY <1>9, <1>10

\* The badges of a step that owns and celebrates none, and after which every request
\* honours what it did.
LEMMA TendingKept ==
  ASSUME NEW b, BadgeTended(b), UNCHANGED <<owned, events, notices>>, ledger \subseteq ledger',
         \A q \in Processes :
           \/ /\ frame'[q].todo = frame[q].todo
              /\ Honours(frame[q], b) => Honours(frame'[q], b)
           \/ /\ ~Honours(frame[q], b)
              /\ \A k \in {"medal", "tell"} : ~HasCall(frame[q].todo, <<k, b>>)
              /\ ~Celebrates(frame[q], Badge(b), events)
  PROVE  BadgeTended(b)'
<1>1. owned'[b] # "no" \/ \E q \in Processes : Honours(frame'[q], b)
  BY DEF BadgeTended
<1>2. \/ Badge(b) \in ledger'
      \/ \E q \in Processes : Honours(frame'[q], b) \/ HasCall(frame'[q].todo, <<"medal", b>>)
  <2>1. CASE Badge(b) \in ledger
    BY <2>1
  <2>2. CASE Badge(b) \notin ledger
    <3>1. PICK q \in Processes : Honours(frame[q], b) \/ HasCall(frame[q].todo, <<"medal", b>>)
      BY <2>2 DEF BadgeTended
    <3> QED
      BY <3>1
  <2> QED
    BY <2>1, <2>2
<1>3. ASSUME owned'[b] = "live"
      PROVE  \/ Badge(b) \in events' \cap notices'
             \/ \E q \in Processes : \/ Honours(frame'[q], b) \/ HasCall(frame'[q].todo, <<"tell", b>>)
                                     \/ Celebrates(frame'[q], Badge(b), events')
  <2>1. CASE Badge(b) \in events \cap notices
    BY <2>1
  <2>2. CASE Badge(b) \notin events \cap notices
    <3>1. PICK q \in Processes : \/ Honours(frame[q], b) \/ HasCall(frame[q].todo, <<"tell", b>>)
                                 \/ Celebrates(frame[q], Badge(b), events)
      BY <1>3, <2>2 DEF BadgeTended
    <3>2. frame'[q].todo = frame[q].todo /\ (Honours(frame[q], b) => Honours(frame'[q], b))
      BY <3>1
    <3>3. Celebrates(frame[q], Badge(b), events) => Celebrates(frame'[q], Badge(b), events')
      BY <3>2 DEF Celebrates
    <3> QED
      BY <3>1, <3>2, <3>3
  <2> QED
    BY <2>1, <2>2
<1> QED
  BY <1>1, <1>2, <1>3 DEF BadgeTended

LEMMA SameHonours ==
  ASSUME NEW f, NEW g, SameRequest(f, g), f.made => g.made, NEW b, Honours(f, b)
  PROVE  Honours(g, b)
<1>1. Repairs(f) => Repairs(g)
  BY DEF SameRequest, Repairs
<1>2. g.todo = f.todo /\ g.total = f.total /\ g.seen = f.seen
  BY DEF SameRequest
<1> QED
  BY <1>1, <1>2 DEF Honours

\* A request that is about to reply has no badge left.
LEMMA ReplyHonoursNone ==
  ASSUME AchievementsInv, ScriptInv, NEW p \in Processes, frame[p].op = "idle" \/ At(p, "reply"),
         NEW b
  PROVE  /\ ~Honours(frame[p], b)
         /\ \A k \in {"medal", "tell"} : ~HasCall(frame[p].todo, <<k, b>>)
         /\ \A r, e : ~Celebrates(frame[p], r, e)
<1> DEFINE t == frame[p].todo
<1>1. /\ \A i \in DOMAIN t : t[i][1] = "reply"
      /\ ~HasKind(t, "totals") /\ ~Repairs(frame[p])
      /\ \A k : HeadIs(t, {k}) => k = "reply"
  BY ReplyAlone
<1> HIDE DEF t
<1>2. \A k, r : HasCall(t, <<k, r>>) => k = "reply"
  BY <1>1 DEF HasCall
<1>3. ~WillRead(t, Evaluations)
  BY <1>1 DEF WillRead, Rereads, HasKind
<1>4. ~InRead(t, Evaluations) /\ ~HeadIs(t, Evaluations)
  BY <1>1 DEF InRead, HeadIs, Evaluations
<1>5. ~Honours(frame[p], b)
  BY <1>1, <1>2, <1>3, <1>4 DEF Honours, Hows, t
<1>6. \A r, e : ~Celebrates(frame[p], r, e)
  BY <1>2 DEF Celebrates, t
<1> QED
  BY <1>2, <1>5, <1>6 DEF t

LEMMA RestoreTendsBadges ==
  ASSUME AchievementsInv, ScriptInv, BadgesTended, NEW p \in Processes, Restore(p)
  PROVE  BadgesTended'
<1>1. frame[p].todo # <<>> /\ Head(frame[p].todo)[1] = "restore" /\ \E r : Repays(p, r)
  BY RestoreRepays
<1>2. PICK r : Repays(p, r)
  BY <1>1
<1>3. /\ \A q \in Processes \ {p} : frame'[q] = frame[q]
      /\ SameRequest(frame[p], frame'[p]) /\ frame'[p].clean = frame[p].clean
      /\ frame'[p].made = (frame[p].made \/ r \notin ledger)
      /\ UNCHANGED <<owned, events, notices, unrewarded>> /\ ledger' = ledger \cup {r}
  BY <1>2 DEF Repays
<1> SUFFICES ASSUME Awarding', NEW b \in Badges, Deserved(b, ledger')
             PROVE  BadgeTended(b)'
  BY DEF BadgesTended
<1>4. Awarding
  BY <1>3 DEF Awarding, SameRequest
<1>5. CASE r \notin ledger
  <2>1. Honours(frame'[p], b)
    BY <1>1, <1>2, <1>5, RestoreLeads DEF Honours
  <2> QED
    BY <2>1 DEF BadgeTended
<1>6. CASE r \in ledger
  <2>1. ledger' = ledger
    BY <1>3, <1>6
  <2>2. BadgeTended(b)
    BY <1>4, <2>1 DEF BadgesTended
  <2>3. Honours(frame[p], b) => Honours(frame'[p], b)
    BY <1>3, SameHonours
  <2>4. \A q \in Processes : /\ frame'[q].todo = frame[q].todo
                             /\ Honours(frame[q], b) => Honours(frame'[q], b)
    BY <1>3, <2>3 DEF SameRequest
  <2> QED
    BY <1>3, <2>1, <2>2, <2>4, TendingKept
<1> QED
  BY <1>5, <1>6

LEMMA ReplyTendsBadges ==
  ASSUME AchievementsInv, ScriptInv, BadgesTended, NEW p \in Processes, Reply(p)
  PROVE  BadgesTended'
<1>1. /\ At(p, "reply") /\ frame' = [frame EXCEPT ![p] = Idle]
      /\ UNCHANGED <<ledger, owned, events, notices>>
      /\ unrewarded' = (unrewarded /\ ~(frame[p].clean /\ frame[p].op = "award"))
  BY DEF Reply, store
<1>2. frame'[p] = Idle /\ \A q \in Processes \ {p} : frame'[q] = frame[q]
  BY <1>1 DEF AchievementsInv, FramesHold
<1> SUFFICES ASSUME Awarding', NEW b \in Badges, Deserved(b, ledger')
             PROVE  BadgeTended(b)'
  BY DEF BadgesTended
<1>3. Awarding
  <2>1. Idle.op = "idle"
    BY DEF Idle
  <2>2. ASSUME NEW q \in Processes, frame'[q].clean /\ frame'[q].op = "award"
        PROVE  frame[q].clean /\ frame[q].op = "award"
    BY <1>2, <2>1, <2>2
  <2>3. ASSUME ~unrewarded', unrewarded PROVE frame[p].clean /\ frame[p].op = "award"
    BY <1>1, <2>3
  <2> QED
    BY <2>2, <2>3 DEF Awarding
<1>4. BadgeTended(b)
  BY <1>1, <1>3 DEF BadgesTended
<1>5. /\ ~Honours(frame[p], b)
      /\ \A k \in {"medal", "tell"} : ~HasCall(frame[p].todo, <<k, b>>)
      /\ ~Celebrates(frame[p], Badge(b), events)
  BY <1>1, ReplyHonoursNone
<1> QED
  BY <1>1, <1>2, <1>4, <1>5, TendingKept

LEMMA StartTendsBadges ==
  ASSUME AchievementsInv, ScriptInv, BadgesTended, NEW p \in Processes,
         Award(p) \/ Read(p) \/ Upgrade(p)
  PROVE  BadgesTended'
<1>1. /\ frame[p].op = "idle" /\ \A q \in Processes \ {p} : frame'[q] = frame[q]
      /\ frame'[p].op = "award" => WillRead(frame'[p].todo, Evaluations)
      /\ UNCHANGED <<ledger, owned, events, notices, unrewarded>>
  BY StartsFresh DEF store, history
<1> SUFFICES ASSUME Awarding', NEW b \in Badges, Deserved(b, ledger')
             PROVE  BadgeTended(b)'
  BY DEF BadgesTended
<1>2. CASE frame'[p].op = "award"
  <2>1. Honours(frame'[p], b)
    BY <1>1, <1>2 DEF Honours
  <2> QED
    BY <2>1 DEF BadgeTended
<1>3. CASE frame'[p].op # "award"
  <2>1. Awarding
    BY <1>1, <1>3 DEF Awarding
  <2>2. BadgeTended(b)
    BY <1>1, <2>1 DEF BadgesTended
  <2>3. /\ ~Honours(frame[p], b)
        /\ \A k \in {"medal", "tell"} : ~HasCall(frame[p].todo, <<k, b>>)
        /\ ~Celebrates(frame[p], Badge(b), events)
    BY <1>1, ReplyHonoursNone
  <2> QED
    BY <1>1, <2>2, <2>3, TendingKept
<1> QED
  BY <1>2, <1>3

LEMMA NextTendsBadges ==
  ASSUME AchievementsInv, ScriptInv, ValueInv, BadgesTended, [Next]_vars
  PROVE  BadgesTended'
<1>1. AchievementsInv'
  BY NextHolds
<1>2. ASSUME Elsewhere PROVE BadgesTended'
  <2>1. UNCHANGED <<ledger, owned, events, notices, frame, unrewarded>>
    BY <1>2 DEF Elsewhere, store, history
  <2> SUFFICES ASSUME Awarding', NEW b \in Badges, Deserved(b, ledger')
               PROVE  BadgeTended(b)'
    BY DEF BadgesTended
  <2>2. BadgeTended(b)
    BY <2>1 DEF BadgesTended, Awarding
  <2> QED
    BY <2>1, <2>2, TendingKept
<1>3. ASSUME NEW p \in Processes, Award(p) \/ Read(p) \/ Upgrade(p) PROVE BadgesTended'
  BY <1>3, StartTendsBadges
<1>4. ASSUME NEW p \in Processes, Reply(p) PROVE BadgesTended'
  BY <1>4, ReplyTendsBadges
<1>5. ASSUME NEW p \in Processes, Restore(p) PROVE BadgesTended'
  BY <1>5, RestoreTendsBadges
<1>6. ASSUME NEW p \in Processes, Crash(p) PROVE BadgesTended'
  <2>1. unrewarded' /\ \A q \in Processes : frame'[q].clean => frame'[q].op = "idle"
    BY <1>6, CrashDisturbs
  <2> QED
    BY <2>1 DEF BadgesTended, Awarding
<1>7. ASSUME NEW p \in Processes, NEW k, NEW s, Moves(p, k, s) PROVE BadgesTended'
  BY <1>1, <1>7, MovesTendBadges
<1> QED
  BY <1>2, <1>3, <1>4, <1>5, <1>6, <1>7, NextIs

LEMMA TendedAreSettled ==
  ASSUME AchievementsInv, ScriptInv, ValueInv, BadgesTended
  PROVE  BadgesSettled
<1> SUFFICES ASSUME AtRest, ~unrewarded
             PROVE  /\ \A b \in Badges :
                         Progress(b, ledger, LongestRun(DaysOf(ledger))) >= Target[b] => owned[b] # "no"
                    /\ \A b \in Owned : Badge(b) \in ledger
                    /\ \A b \in Badges : owned[b] = "live" => Badge(b) \in events \cap notices
  BY DEF BadgesSettled
<1>1. ASSUME NEW p \in Processes, NEW b
      PROVE  /\ ~Honours(frame[p], b)
             /\ \A k \in {"medal", "tell"} : ~HasCall(frame[p].todo, <<k, b>>)
             /\ ~Celebrates(frame[p], Badge(b), events)
  BY ReplyHonoursNone DEF AtRest
<1>2. ASSUME NEW b \in Badges, Deserved(b, ledger)
      PROVE  /\ owned[b] # "no" /\ Badge(b) \in ledger
             /\ owned[b] = "live" => Badge(b) \in events \cap notices
  <2>1. BadgeTended(b)
    BY <1>2 DEF BadgesTended, Awarding
  <2> QED
    BY <1>1, <2>1 DEF BadgeTended
<1>3. \A b \in Owned : b \in Badges /\ Deserved(b, ledger)
  BY DEF Owned, ValueInv, StoreKnown
<1>4. \A b \in Badges :
        Progress(b, ledger, LongestRun(DaysOf(ledger))) >= Target[b] => Deserved(b, ledger)
  BY DEF Deserved, Reached, LR
<1>5. \A b \in Badges : owned[b] = "live" => b \in Owned
  BY DEF Owned
<1> QED
  BY <1>2, <1>3, <1>4, <1>5

-----------------------------------------------------------------------------
(* The rank: while the XP of the ledger amounts to one that is not         *)
(* announced, an award whose baseline lies below it will compare ranks, or *)
(* one died before it could.                                               *)

Baseline(f, a, en) == IF en[a].base = Unset THEN f.base ELSE en[a].base
Announces(f, R, en, ev) ==
  /\ f.base # Unset
  /\ \A a \in Activities : Activity(a) \in f.owed => Baseline(f, a, en) < Thresholds[R]
  /\ \/ WillRead(f.todo, {"rank"})
     \/ /\ InRead(f.todo, {"rank"}) /\ ~HeadIs(f.todo, {"enroll"})
        /\ XpOf(f.total) >= Thresholds[R]
     \/ HeadIs(f.todo, {"rank"}) /\ f.seen.xp >= Thresholds[R]
     \/ Celebrates(f, RankEvent(R), ev)
\* The award of an activity whose first award died, when it replies.
Heals(f, r, en) == f.clean /\ f.base # Unset /\ r \in f.owed /\ en[r[2]].base # Unset
RankTendedAt(R) ==
  \/ RankEvent(R) \in events \cap notices
  \/ \E p \in Processes : Announces(frame[p], R, entry, events)
  \/ \E r \in unranked :
       entry[r[2]].base < Thresholds[R] /\ \A p \in Processes : ~Heals(frame[p], r, entry)
RankTended == ~silent /\ Rank(XpOf(ledger)) > 1 => RankTendedAt(Rank(XpOf(ledger)))

\* What a request with a baseline is: an award that has booked its activity.
LEMMA BaselineFacts ==
  ASSUME ScriptInv, NEW p \in Processes, frame[p].base # Unset
  PROVE  /\ AwardHolds(frame[p], ledger) /\ ~HasKind(frame[p].todo, "create")
         /\ frame[p].owed \subseteq ledger /\ frame[p].op # "idle"
<1>1. ScriptHolds(frame[p], ledger)
  BY DEF ScriptInv
<1>2. frame[p].op = "award"
  BY <1>1 DEF ScriptHolds
<1> QED
  BY <1>1, <1>2 DEF ScriptHolds, AwardHolds

EntriesStay == \A a \in Activities : Activity(a) \in ledger => entry'[a] = entry[a]

LEMMA MoveEntries ==
  ASSUME AchievementsInv, NEW p \in Processes, NEW k, NEW s, Moves(p, k, s)
  PROVE  EntriesStay
<1>1. IF k = "create" THEN BookActivity(Arg(p), today, frame[p].seen.xp) ELSE entry' = entry
  BY DEF Moves, Writes
<1>2. DOMAIN entry = Activities
  BY DEF AchievementsInv, LedgerHolds
<1>3. CASE k = "create"
  <2>1. entry' = IF Activity(Arg(p)) \in ledger THEN entry
                 ELSE [entry EXCEPT ![Arg(p)] = [day |-> today, base |-> frame[p].seen.xp]]
    BY <1>1, <1>3 DEF BookActivity
  <2> QED
    BY <1>2, <2>1 DEF EntriesStay
<1> QED
  BY <1>1, <1>3 DEF EntriesStay

\* The same request announces the same, and heals no more, as long as the entries stay.
LEMMA SameAnnounces ==
  ASSUME ScriptInv, NEW p \in Processes, NEW g, SameRequest(frame[p], g),
         EntriesStay, NEW R, NEW ev, events \subseteq ev
  PROVE  /\ Announces(frame[p], R, entry, events) => Announces(g, R, entry', ev)
         /\ (g.clean => frame[p].clean) =>
              \A r \in {Activity(a) : a \in Activities} \cap ledger :
                Heals(g, r, entry') => Heals(frame[p], r, entry)
<1> DEFINE f == frame[p]
<1>1. g.todo = f.todo /\ g.total = f.total /\ g.seen = f.seen /\ g.base = f.base /\ g.owed = f.owed
  BY DEF SameRequest
<1>2. f.base # Unset => f.owed \subseteq ledger
  BY BaselineFacts
<1> HIDE DEF f
<1>3. ASSUME Announces(f, R, entry, events) PROVE Announces(g, R, entry', ev)
  <2>1. f.base # Unset /\ f.owed \subseteq ledger
    BY <1>2, <1>3 DEF Announces
  <2>2. ASSUME NEW a \in Activities, Activity(a) \in g.owed
        PROVE  Baseline(g, a, entry') < Thresholds[R]
    <3>1. entry'[a] = entry[a] /\ Activity(a) \in f.owed
      BY <1>1, <2>1, <2>2 DEF EntriesStay
    <3> QED
      BY <1>1, <1>3, <3>1 DEF Announces, Baseline
  <2>3. Celebrates(f, RankEvent(R), events) => Celebrates(g, RankEvent(R), ev)
    BY <1>1 DEF Celebrates
  <2> QED
    BY <1>1, <1>3, <2>1, <2>2, <2>3 DEF Announces
<1>4. ASSUME g.clean => f.clean,
             NEW r \in {Activity(a) : a \in Activities} \cap ledger, Heals(g, r, entry')
      PROVE  Heals(f, r, entry)
  <2>1. r[2] \in Activities /\ r = Activity(r[2])
    BY ActivityFacts
  <2>2. entry'[r[2]] = entry[r[2]]
    BY <1>4, <2>1 DEF EntriesStay
  <2> QED
    BY <1>1, <1>4, <2>2 DEF Heals, f
<1> QED
  BY <1>3, <1>4 DEF f

\* The steps in which requests only begin, end or book for a repair.
LEMMA RankStays ==
  ASSUME ScriptInv, ValueInv, EntriesStay, NEW R, RankTendedAt(R),
         events \subseteq events', notices \subseteq notices',
         \A q \in Processes :
           \/ SameRequest(frame[q], frame'[q]) /\ (frame'[q].clean => frame[q].clean)
           \/ ~Announces(frame[q], R, entry, events) /\ frame'[q].base = Unset,
         \A r \in unranked : (\A q \in Processes : ~Heals(frame[q], r, entry)) => r \in unranked'
  PROVE  RankTendedAt(R)'
<1>1. CASE RankEvent(R) \in events \cap notices
  BY <1>1 DEF RankTendedAt
<1>2. CASE \E p \in Processes : Announces(frame[p], R, entry, events)
  <2>1. PICK p \in Processes : Announces(frame[p], R, entry, events)
    BY <1>2
  <2>2. SameRequest(frame[p], frame'[p]) /\ (frame'[p].clean => frame[p].clean)
    BY <2>1
  <2>3. Announces(frame'[p], R, entry', events')
    BY <2>1, <2>2, SameAnnounces
  <2> QED
    BY <2>3 DEF RankTendedAt
<1>3. CASE \E r \in unranked : /\ entry[r[2]].base < Thresholds[R]
                               /\ \A p \in Processes : ~Heals(frame[p], r, entry)
  <2>1. PICK r \in unranked : /\ entry[r[2]].base < Thresholds[R]
                              /\ \A p \in Processes : ~Heals(frame[p], r, entry)
    BY <1>3
  <2>2. r \in {Activity(a) : a \in Activities} \cap ledger
    BY DEF ValueInv, StoreKnown
  <2>3. ASSUME NEW q \in Processes PROVE ~Heals(frame'[q], r, entry')
    <3>1. CASE frame'[q].base = Unset
      BY <3>1 DEF Heals
    <3>2. CASE SameRequest(frame[q], frame'[q]) /\ (frame'[q].clean => frame[q].clean)
      BY <2>1, <2>2, <3>2, SameAnnounces
    <3> QED
      BY <3>1, <3>2
  <2>4. entry'[r[2]] = entry[r[2]]
    <3>1. r[2] \in Activities /\ r = Activity(r[2])
      BY <2>2, ActivityFacts
    <3> QED
      BY <2>2, <3>1 DEF EntriesStay
  <2>5. r \in unranked'
    BY <2>1
  <2> QED
    BY <2>1, <2>3, <2>4, <2>5 DEF RankTendedAt
<1> QED
  BY <1>1, <1>2, <1>3 DEF RankTendedAt

LEMMA LedgerXp ==
  ASSUME AchievementsInv
  PROVE  LET R == Rank(XpOf(ledger))
         IN /\ XpOf(ledger) \in Nat /\ R \in 1..Len(Thresholds) /\ Thresholds[R] \in Nat
            /\ Thresholds[R] <= XpOf(ledger)
<1>1. ledger \subseteq References /\ IsFiniteSet(ledger)
  BY DEF AchievementsInv, LedgerHolds
<1>2. XpOf(ledger) \in Nat
  BY <1>1, XpGrows
<1> QED
  BY <1>2, RankFacts, ThresholdType

\* The first rank needs no announcement: it begins at no XP.
LEMMA NoRank == Rank(XpOf({})) = 1
<1>1. XpOf({}) \in Nat /\ XpOf({}) = Cardinality(Points({}))
  BY PointsFinite, FS_EmptySet
<1>2. Points({}) = {}
  BY DEF Points
<1>3. XpOf({}) = 0
  BY <1>1, <1>2, FS_EmptySet
<1>4. Rank(0) \in 1..Len(Thresholds) /\ Thresholds[Rank(0)] <= 0
  BY RankFacts
<1>5. 1 \in 1..Len(Thresholds) /\ Thresholds[1] = 0 /\ Len(Thresholds) \in Nat
  BY RewardsAssumption
<1>6. ASSUME Rank(0) > 1 PROVE FALSE
  <2> DEFINE R == Rank(0)
  <2>1. R \in Nat /\ R - 1 \in 1..Len(Thresholds) /\ R \in 2..Len(Thresholds)
    BY <1>4, <1>5, <1>6
  <2>2. Thresholds[R - 1] < Thresholds[R]
    BY <2>1, RewardsAssumption
  <2>3. Thresholds[R - 1] \in Nat /\ Thresholds[R] \in Nat
    BY <2>1, <1>4, ThresholdType
  <2> QED
    BY <1>4, <2>2, <2>3
<1> QED
  BY <1>3, <1>4, <1>5, <1>6

\* The award compares ranks: its baseline lies below the rank, and what it saw does not.
LEMMA ComparisonAnnounces ==
  ASSUME AchievementsInv, ScriptInv, ValueInv, NEW p \in Processes, NEW s, Moves(p, "rank", s),
         NEW R, R = Rank(XpOf(ledger)), frame[p].base # Unset,
         \A a \in Activities : Activity(a) \in frame[p].owed => Baseline(frame[p], a, entry) < Thresholds[R],
         frame[p].seen.xp >= Thresholds[R]
  PROVE  HasCall(frame'[p].todo, <<"event", RankEvent(R)>>)
<1> DEFINE f == frame[p]
           t == f.todo
           x == f.seen.xp
<1>1. /\ t # <<>> /\ Head(t)[1] = "rank" /\ Arg(p) = Head(t)[2] /\ IsScript(t) /\ IsScript(s)
      /\ frame'[p].todo = Pushed(s, t)
  BY MoveFacts
<1>2. PICK a \in Activities :
        /\ f.owed = {Activity(a)}
        /\ \A i \in DOMAIN t : t[i][1] \in {"create", "rank"} => t[i][2] = a
  BY BaselineFacts DEF AwardHolds
<1>3. Arg(p) = a
  BY <1>1, <1>2, RestFacts
<1> DEFINE before == BaseOf(p, a)
<1>4. before = Baseline(f, a, entry)
  BY DEF BaseOf, Baseline
<1>5. before < Thresholds[R]
  BY <1>2, <1>4
<1>6. before \in Nat
  <2>1. f.base \in Nat /\ (entry[a].base = Unset \/ entry[a].base \in Nat)
    BY <1>2 DEF ValueInv, KnownHolds, StoreKnown
  <2> QED
    BY <2>1 DEF BaseOf
<1>7. x \in Nat /\ x <= XpOf(ledger) /\ XpOf(ledger) \in Nat /\ Thresholds[R] \in Nat
  BY LedgerXp DEF ValueInv, KnownHolds
<1>8. Rank(x) = R
  BY <1>7, RankBetween
<1>9. Rank(before) # Rank(x) /\ x > before
  <2>1. before < Thresholds[Rank(x)]
    BY <1>5, <1>8
  <2>2. Rank(before) # Rank(x)
    BY <1>6, <1>7, <2>1, RankBelow
  <2> HIDE DEF before, x
  <2>3. x > before
    BY <1>5, <1>6, <1>7 DEF x
  <2> QED
    BY <2>2, <2>3
<1>10. HasCall(s, Announced(p))
  BY <1>3, <1>9 DEF Moves, Leads
<1>11. Announced(p) = <<"event", RankEvent(R)>>
  BY <1>8 DEF Announced
<1> QED
  BY <1>1, <1>10, <1>11, AheadPush

LEMMA AnnouncesGoesOn ==
  ASSUME AchievementsInv, AchievementsInv', ScriptInv, ValueInv, NEW p \in Processes, NEW k, NEW s,
         Moves(p, k, s), NEW R, R = Rank(XpOf(ledger)), R > 1, Announces(frame[p], R, entry, events)
  PROVE  Announces(frame'[p], R, entry', events') \/ RankEvent(R) \in events' \cap notices'
<1> DEFINE f == frame[p]
           g == frame'[p]
           t == f.todo
           u == g.todo
           x == Thresholds[R]
<1>1. /\ t # <<>> /\ Head(t)[1] = k /\ Arg(p) = Head(t)[2] /\ IsScript(t) /\ IsScript(s)
      /\ u = Pushed(s, t)
  BY MoveFacts
<1>2. f.base # Unset
  BY DEF Announces
<1>3. /\ AwardHolds(f, ledger) /\ ~HasKind(t, "create") /\ f.owed \subseteq ledger
  BY <1>2, BaselineFacts
<1>4. k # "create"
  BY <1>1, <1>3, RestFacts DEF HasKind
<1>5. /\ g.total = IF k = "totals" THEN ledger ELSE IF Answers(k, s) THEN {} ELSE f.total
      /\ g.base = f.base
  BY <1>4 DEF Moves, Knows
<1>6. g.owed = f.owed
  BY DEF Moves, Goes
<1>7. k \in {"totals", "dates", "ownerships", "enroll", "restore"} => s = <<>>
  BY DEF Moves, Projects
<1>8. Sound(t) /\ Pushed(<<>>, t) = Tail(t)
  BY <1>1, RestFacts DEF ScriptInv, ScriptHolds
<1>9. k \in {"dates", "ownerships"} => ~Answers(k, s)
  BY DEF Answers
<1>10. \A a \in Activities : Activity(a) \in g.owed => Baseline(g, a, entry') < x
  <2>1. ASSUME NEW a \in Activities, Activity(a) \in g.owed PROVE Baseline(g, a, entry') < x
    <3>1. entry'[a] = entry[a]
      BY <1>3, <1>6, <2>1, MoveEntries DEF EntriesStay
    <3>2. Baseline(g, a, entry') = Baseline(f, a, entry)
      BY <1>5, <3>1 DEF Baseline
    <3> QED
      BY <1>6, <2>1, <3>2 DEF Announces
  <2> QED
    BY <2>1
<1>11. XpOf(ledger) >= x
  BY LedgerXp
<1>12. profile.exists
  <2>1. ~profile.exists => ledger = {}
    BY DEF ValueInv, ProfileKnown
  <2> QED
    BY <2>1, NoRank
<1>13. ASSUME \/ WillRead(u, {"rank"})
              \/ InRead(u, {"rank"}) /\ ~HeadIs(u, {"enroll"}) /\ XpOf(g.total) >= x
              \/ HeadIs(u, {"rank"}) /\ g.seen.xp >= x
              \/ Celebrates(g, RankEvent(R), events')
       PROVE  Announces(g, R, entry', events')
  BY <1>2, <1>5, <1>10, <1>13 DEF Announces
<1>14. \/ WillRead(t, {"rank"})
       \/ InRead(t, {"rank"}) /\ ~HeadIs(t, {"enroll"}) /\ XpOf(f.total) >= x
       \/ HeadIs(t, {"rank"}) /\ f.seen.xp >= x
       \/ Celebrates(f, RankEvent(R), events)
  BY DEF Announces
<1>15. ASSUME HeadIs(t, {"rank"}), f.seen.xp >= x
       PROVE  HasCall(u, <<"event", RankEvent(R)>>)
  <2>1. Moves(p, "rank", s)
    BY <1>1, <1>15 DEF HeadIs
  <2>2. \A a \in Activities : Activity(a) \in f.owed => Baseline(f, a, entry) < Thresholds[R]
    BY DEF Announces
  <2> QED
    BY <1>2, <1>15, <2>1, <2>2, ComparisonAnnounces
<1>16. Celebrates(f, RankEvent(R), events) =>
         Celebrates(g, RankEvent(R), events') \/ RankEvent(R) \in events' \cap notices'
  BY CelebratesGoesOn
<1>17. k = "project" =>
         /\ s = <<>> /\ g.seen.xp = XpOf(profile'.shows) /\ XpOf(f.total) <= XpOf(profile'.shows)
         /\ XpOf(f.total) \in Nat /\ XpOf(profile'.shows) \in Nat
  BY <1>12, AnswerCovers
<1>18. x \in Nat
  BY LedgerXp
<1> HIDE DEF f, g, t, u, x
<1>19. CASE WillRead(t, {"rank"})
  <2>1. Rereads(t, 1, {"rank"}) \/ WillRead(u, {"rank"})
    BY <1>1, <1>19, AheadPush
  <2>2. ASSUME Rereads(t, 1, {"rank"}) PROVE Announces(g, R, entry', events')
    <3>1. k = "totals"
      BY <1>1, <2>2, RestFacts DEF Rereads
    <3>2. u = Tail(t) /\ g.total = ledger
      BY <1>1, <1>5, <1>7, <1>8, <3>1
    <3>3. HeadIs(u, {"dates"}) /\ InRead(u, {"rank"})
      BY <1>1, <1>8, <2>2, <3>1, <3>2, ReadingGoesOn
    <3>4. ~HeadIs(u, {"enroll"})
      BY <3>3 DEF HeadIs
    <3> QED
      BY <1>11, <1>13, <3>2, <3>3, <3>4
  <2> QED
    BY <1>13, <2>1, <2>2 DEF g
<1>20. CASE InRead(t, {"rank"}) /\ ~HeadIs(t, {"enroll"}) /\ XpOf(f.total) >= x
  <2>1. k \in {"dates", "ownerships", "project"}
    BY <1>1, <1>20 DEF InRead, HeadIs
  <2>2. CASE k \in {"dates", "ownerships"}
    <3>1. u = Tail(t) /\ g.total = f.total
      BY <1>1, <1>5, <1>7, <1>8, <1>9, <2>2
    <3>2. InRead(u, {"rank"})
      BY <1>1, <1>8, <1>20, <2>2, <3>1, ReadingGoesOn
    <3>3. HeadIs(u, {"ownerships"}) \/ HeadIs(u, {"project"})
      BY <1>1, <1>8, <2>2, <3>1, ReadingGoesOn
    <3>4. ~HeadIs(u, {"enroll"})
      BY <3>3 DEF HeadIs
    <3>5. Announces(g, R, entry', events')
      BY <1>13, <1>20, <3>1, <3>2, <3>4
    <3> QED
      BY <3>5 DEF g
  <2>3. CASE k = "project"
    <3>1. u = Tail(t)
      BY <1>1, <1>8, <1>17, <2>3
    <3>2. HeadIs(u, {"rank"})
      BY <1>1, <1>8, <1>20, <2>3, <3>1, ReadingGoesOn
    <3>3. g.seen.xp >= x
      BY <1>17, <1>18, <1>20, <2>3
    <3>4. Announces(g, R, entry', events')
      BY <1>13, <3>2, <3>3
    <3> QED
      BY <3>4 DEF g
  <2> QED
    BY <2>1, <2>2, <2>3
<1>21. CASE HeadIs(t, {"rank"}) /\ f.seen.xp >= x
  <2>1. Celebrates(g, RankEvent(R), events')
    BY <1>15, <1>21 DEF Celebrates, u
  <2>2. Announces(g, R, entry', events')
    BY <1>13, <2>1
  <2> QED
    BY <2>2 DEF g
<1>22. CASE Celebrates(f, RankEvent(R), events)
  <2>1. Celebrates(g, RankEvent(R), events') => Announces(g, R, entry', events')
    BY <1>13
  <2> QED
    BY <1>16, <1>22, <2>1 DEF g
<1> QED
  BY <1>14, <1>19, <1>20, <1>21, <1>22

\* An award that books its entry, below the rank or as one that an earlier award booked
\* below it, will announce it.
LEMMA EntryAnnounces ==
  ASSUME AchievementsInv, ScriptInv, ValueInv, NEW p \in Processes, NEW s, Moves(p, "create", s),
         NEW R, Thresholds[R] \in Nat,
         \/ XpOf(ledger) < Thresholds[R]
         \/ \E r \in frame[p].owed : entry'[r[2]].base # Unset /\ entry'[r[2]].base < Thresholds[R]
  PROVE  Announces(frame'[p], R, entry', events')
<1> DEFINE f == frame[p]
           g == frame'[p]
           t == f.todo
           u == g.todo
           x == Thresholds[R]
<1>1. /\ t # <<>> /\ Head(t)[1] = "create" /\ IsScript(t) /\ IsScript(s) /\ u = Pushed(s, t)
      /\ Sound(t)
  BY MoveFacts DEF ScriptInv, ScriptHolds
<1>2. g.base = f.seen.xp /\ g.owed = f.owed
  BY DEF Moves, Knows, Goes
<1>3. AwardHolds(f, ledger)
  <2>1. HasKind(t, "create")
    BY <1>1, RestFacts DEF HasKind
  <2> QED
    BY <2>1 DEF ScriptInv, ScriptHolds
<1>4. PICK a \in Activities : f.owed = {Activity(a)}
  BY <1>3 DEF AwardHolds
<1>5. WillRead(u, {"rank"})
  <2>1. RankLater(t)
    BY <1>3 DEF AwardHolds
  <2> HIDE DEF t, u
  <2> QED
    BY <1>1, <2>1, HeadLeads DEF Watched
<1>6. f.seen.xp \in Nat /\ f.seen.xp <= XpOf(ledger) /\ XpOf(ledger) \in Nat
  BY LedgerXp DEF ValueInv, KnownHolds
<1>7. entry'[a].base \in {entry[a].base, f.seen.xp}
  <2>1. BookActivity(Arg(p), today, f.seen.xp) /\ DOMAIN entry = Activities
    BY DEF Moves, Writes, AchievementsInv, LedgerHolds
  <2> QED
    BY <2>1 DEF BookActivity
<1>8. entry[a].base \in Nat \cup {Unset} /\ entry[a].base <= XpOf(ledger)
  BY DEF ValueInv, StoreKnown
<1> HIDE DEF f, g, t, u, x
<1>9. Baseline(g, a, entry') < x
  <2>1. CASE XpOf(ledger) < x
    <3>1. \A n \in Nat \cup {Unset} : n <= XpOf(ledger) => n < x
      BY <1>6, <2>1 DEF x, Unset
    <3>2. g.base \in Nat \cup {Unset} /\ g.base <= XpOf(ledger)
      BY <1>2, <1>6
    <3>3. entry'[a].base \in Nat \cup {Unset} /\ entry'[a].base <= XpOf(ledger)
      BY <1>6, <1>7, <1>8
    <3> QED
      BY <3>1, <3>2, <3>3 DEF Baseline
  <2>2. CASE \E r \in f.owed : entry'[r[2]].base # Unset /\ entry'[r[2]].base < x
    <3>1. entry'[a].base # Unset /\ entry'[a].base < x
      BY <1>4, <2>2, ActivityFacts
    <3> QED
      BY <3>1 DEF Baseline
  <2> QED
    BY <2>1, <2>2 DEF f, x
<1>10. \A b \in Activities : Activity(b) \in g.owed => b = a
  BY <1>2, <1>4, ActivityFacts
<1>11. g.base # Unset
  BY <1>2, <1>6 DEF Unset
<1> QED
  BY <1>5, <1>9, <1>10, <1>11 DEF Announces, u, x, g

\* A badge that an award pays leads it to compare ranks again.
LEMMA MedalAnnounces ==
  ASSUME AchievementsInv, ScriptInv, ValueInv, NEW p \in Processes, NEW s, Moves(p, "medal", s),
         frame[p].base # Unset, NEW R, Thresholds[R] \in Nat, XpOf(ledger) < Thresholds[R]
  PROVE  Announces(frame'[p], R, entry', events')
<1> DEFINE f == frame[p]
           g == frame'[p]
           t == f.todo
           u == g.todo
<1>1. /\ t # <<>> /\ Head(t)[1] = "medal" /\ IsScript(t) /\ IsScript(s) /\ u = Pushed(s, t)
      /\ Sound(t)
  BY MoveFacts DEF ScriptInv, ScriptHolds
<1>2. g.base = f.base /\ g.owed = f.owed /\ entry' = entry
  BY DEF Moves, Knows, Goes, Writes
<1>3. AwardHolds(f, ledger)
  BY BaselineFacts
<1>4. WillRead(u, {"rank"})
  <2>1. RankLater(t)
    BY <1>3 DEF AwardHolds
  <2> HIDE DEF t, u
  <2> QED
    BY <1>1, <2>1, HeadLeads DEF Watched, Paying
<1>5. XpOf(ledger) \in Nat
  BY LedgerXp
<1>6. \A n \in Nat \cup {Unset} : n <= XpOf(ledger) => n < Thresholds[R]
  BY <1>5 DEF Unset
<1>7. f.base \in Nat \cup {Unset} /\ f.base <= XpOf(ledger)
  BY DEF ValueInv, KnownHolds
<1>8. \A a \in Activities : entry[a].base \in Nat \cup {Unset} /\ entry[a].base <= XpOf(ledger)
  BY DEF ValueInv, StoreKnown
<1> HIDE DEF f, g, t, u
<1>9. \A a \in Activities : Baseline(g, a, entry') < Thresholds[R]
  BY <1>2, <1>6, <1>7, <1>8 DEF Baseline
<1>10. g.base # Unset
  BY <1>2 DEF f
<1> QED
  BY <1>4, <1>9, <1>10 DEF Announces, u, g

LEMMA MoveRaises ==
  ASSUME AchievementsInv, AchievementsInv', NEW p \in Processes, NEW k, NEW s, Moves(p, k, s),
         ~silent', XpOf(ledger') # XpOf(ledger)
  PROVE  k = "create" \/ (k = "medal" /\ frame[p].base # Unset)
<1>1. /\ ledger' = CASE k = "create" -> ledger \cup {Activity(Arg(p))}
                     [] k = "day" -> ledger \cup {Day(entry[Arg(p)].day)}
                     [] k = "medal" -> ledger \cup {Badge(Arg(p))}
                     [] OTHER -> ledger
      /\ k = "medal" => silent' = (silent \/ (frame[p].base = Unset /\ Badge(Arg(p)) \notin ledger
                                                /\ BadgeXp[Arg(p)] > 0))
  BY DEF Moves, Writes
<1>2. k \in {"create", "day", "medal"}
  BY <1>1
<1>3. k # "day"
  <2>1. ASSUME k = "day" PROVE FALSE
    <3> DEFINE r == Day(entry[Arg(p)].day)
    <3>1. Xp(r) = 0
      BY DEF Xp, Day
    <3>2. ledger' = ledger \cup {r}
      BY <1>1, <2>1
    <3> HIDE DEF r
    <3> QED
      BY <3>1, <3>2, NoXp
  <2> QED
    BY <2>1
<1>4. ASSUME k = "medal", frame[p].base = Unset PROVE FALSE
  <2> DEFINE b == Arg(p)
  <2>1. Badge(b) \in ledger \/ ~(BadgeXp[b] > 0)
    BY <1>1, <1>4
  <2>2. ledger' = ledger \cup {Badge(b)}
    BY <1>1, <1>4
  <2>3. At(p, "medal")
    BY <1>4 DEF Moves, Goes
  <2>4. BadgeXp[b] \in Nat
    BY <2>3, AtFacts, RewardsAssumption
  <2>5. Xp(Badge(b)) = BadgeXp[b]
    BY DEF Xp, Badge
  <2>6. Badge(b) \in ledger \/ Xp(Badge(b)) = 0
    BY <2>1, <2>4, <2>5
  <2> QED
    BY <2>2, <2>6, NoXp
<1> QED
  BY <1>2, <1>3, <1>4

LEMMA MovesKeepRank ==
  ASSUME AchievementsInv, AchievementsInv', ScriptInv, ValueInv, NEW p \in Processes, NEW k, NEW s,
         Moves(p, k, s), NEW R, R = Rank(XpOf(ledger)), R > 1, RankTendedAt(R)
  PROVE  RankTendedAt(R)'
<1>1. /\ \A q \in Processes \ {p} : frame'[q] = frame[q]
      /\ frame'[p].op = frame[p].op /\ frame'[p].clean = frame[p].clean
      /\ frame'[p].owed = frame[p].owed /\ unranked' = unranked
  BY DEF Moves, Goes
<1>2. events \subseteq events' /\ notices \subseteq notices'
  BY DEF Moves, Writes
<1>3. EntriesStay
  BY MoveEntries
<1>4. ASSUME NEW q \in Processes, q # p
      PROVE  SameRequest(frame[q], frame'[q]) /\ frame'[q].clean = frame[q].clean
  BY <1>1, <1>4 DEF SameRequest
<1>5. CASE RankEvent(R) \in events \cap notices
  BY <1>2, <1>5 DEF RankTendedAt
<1>6. CASE \E q \in Processes : Announces(frame[q], R, entry, events)
  <2>1. PICK q \in Processes : Announces(frame[q], R, entry, events)
    BY <1>6
  <2>2. CASE q = p
    <3>1. Announces(frame'[p], R, entry', events') \/ RankEvent(R) \in events' \cap notices'
      BY <2>1, <2>2, AnnouncesGoesOn
    <3> QED
      BY <3>1 DEF RankTendedAt
  <2>3. CASE q # p
    <3>1. Announces(frame'[q], R, entry', events')
      BY <1>2, <1>3, <1>4, <2>1, <2>3, SameAnnounces
    <3> QED
      BY <3>1 DEF RankTendedAt
  <2> QED
    BY <2>2, <2>3
<1>7. CASE \E r \in unranked : /\ entry[r[2]].base < Thresholds[R]
                               /\ \A q \in Processes : ~Heals(frame[q], r, entry)
  <2>1. PICK r \in unranked : /\ entry[r[2]].base < Thresholds[R]
                              /\ \A q \in Processes : ~Heals(frame[q], r, entry)
    BY <1>7
  <2>2. r \in {Activity(a) : a \in Activities} \cap ledger
    BY DEF ValueInv, StoreKnown
  <2>3. r[2] \in Activities /\ r = Activity(r[2])
    BY <2>2, ActivityFacts
  <2>4. entry'[r[2]] = entry[r[2]]
    BY <1>3, <2>2, <2>3 DEF EntriesStay
  <2>5. \A q \in Processes : q # p => ~Heals(frame'[q], r, entry')
    BY <1>1, <2>1, <2>4 DEF Heals
  <2>6. CASE ~Heals(frame'[p], r, entry')
    BY <1>1, <2>1, <2>4, <2>5, <2>6 DEF RankTendedAt
  <2>7. CASE Heals(frame'[p], r, entry')
    <3>1. k = "create"
      <4>1. k # "create" => frame'[p].base = frame[p].base
        BY DEF Moves, Knows
      <4> QED
        BY <1>1, <2>1, <2>4, <2>7, <4>1 DEF Heals
    <3>2. \E c \in frame[p].owed : entry'[c[2]].base # Unset /\ entry'[c[2]].base < Thresholds[R]
      BY <1>1, <2>1, <2>4, <2>7 DEF Heals
    <3>3. Thresholds[R] \in Nat
      BY LedgerXp
    <3>4. Announces(frame'[p], R, entry', events')
      BY <3>1, <3>2, <3>3, EntryAnnounces
    <3> QED
      BY <3>4 DEF RankTendedAt
  <2> QED
    BY <2>6, <2>7
<1> QED
  BY <1>5, <1>6, <1>7 DEF RankTendedAt

LEMMA MovesTendRank ==
  ASSUME AchievementsInv, AchievementsInv', ScriptInv, ValueInv, RankTended,
         NEW p \in Processes, NEW k, NEW s, Moves(p, k, s)
  PROVE  RankTended'
<1> SUFFICES ASSUME ~silent', NEW S, S = Rank(XpOf(ledger')), S > 1
             PROVE  RankTendedAt(S)'
  BY DEF RankTended
<1> DEFINE R == Rank(XpOf(ledger))
<1>1. ~silent
  BY DEF Moves, Writes
<1>2. CASE S = R
  <2>1. RankTendedAt(R)
    BY <1>1, <1>2 DEF RankTended
  <2> QED
    BY <1>2, <2>1, MovesKeepRank
<1>3. CASE S # R
  <2>1. /\ XpOf(ledger) \in Nat /\ XpOf(ledger') \in Nat /\ XpOf(ledger) <= XpOf(ledger')
    BY MoveFacts, XpBounded DEF AchievementsInv
  <2>2. XpOf(ledger) < Thresholds[S]
    BY <1>3, <2>1, RankRises
  <2>3. Thresholds[S] \in Nat
    BY <2>1, RankFacts, ThresholdType
  <2>4. k = "create" \/ (k = "medal" /\ frame[p].base # Unset)
    BY <1>3, MoveRaises
  <2> HIDE DEF R
  <2>5. Announces(frame'[p], S, entry', events')
    BY <2>2, <2>3, <2>4, EntryAnnounces, MedalAnnounces
  <2>6. \E q \in Processes : Announces(frame'[q], S, entry', events')
    BY <2>5
  <2> QED
    BY <2>6 DEF RankTendedAt
<1> QED
  BY <1>2, <1>3

\* A request that is about to reply, or idle, has nothing to announce.
LEMMA ReplyAnnouncesNone ==
  ASSUME AchievementsInv, ScriptInv, NEW p \in Processes, frame[p].op = "idle" \/ At(p, "reply"),
         NEW R
  PROVE  ~Announces(frame[p], R, entry, events)
<1> DEFINE t == frame[p].todo
<1>1. ~HasKind(t, "totals") /\ \A k : HeadIs(t, {k}) => k = "reply"
  BY ReplyAlone
<1>2. ~Celebrates(frame[p], RankEvent(R), events)
  BY ReplyHonoursNone
<1> HIDE DEF t
<1>3. ~WillRead(t, {"rank"}) /\ ~InRead(t, {"rank"}) /\ ~HeadIs(t, {"rank"})
  BY <1>1 DEF WillRead, Rereads, HasKind, InRead, HeadIs
<1> QED
  BY <1>2, <1>3 DEF Announces, t

LEMMA RestoreTendsRank ==
  ASSUME AchievementsInv, AchievementsInv', ScriptInv, ValueInv, RankTended, NEW p \in Processes,
         Restore(p)
  PROVE  RankTended'
<1>1. PICK r : Repays(p, r)
  BY RestoreRepays
<1>2. /\ ledger' = ledger \cup {r} /\ silent' = (silent \/ (r \notin ledger /\ Xp(r) > 0))
      /\ \A q \in Processes \ {p} : frame'[q] = frame[q]
      /\ SameRequest(frame[p], frame'[p]) /\ frame'[p].clean = frame[p].clean
      /\ UNCHANGED <<events, notices, unranked>>
  BY <1>1 DEF Repays
<1>3. EntriesStay
  BY <1>1 DEF Repays, EntriesStay
<1> SUFFICES ASSUME ~silent', NEW R, R = Rank(XpOf(ledger')), R > 1 PROVE RankTendedAt(R)'
  BY DEF RankTended
<1>4. XpOf(ledger') = XpOf(ledger)
  <2>1. r \in References
    BY <1>2 DEF AchievementsInv, LedgerHolds
  <2>2. Xp(r) \in Nat
    BY <2>1, XpType
  <2>3. r \in ledger \/ ~(Xp(r) > 0)
    BY <1>2, Zenon
  <2>4. r \in ledger \/ Xp(r) = 0
    BY <2>2, <2>3
  <2> QED
    BY <1>2, <2>4, NoXp
<1>5. RankTendedAt(R)
  BY <1>2, <1>4 DEF RankTended
<1>6. \A q \in Processes :
        SameRequest(frame[q], frame'[q]) /\ (frame'[q].clean => frame[q].clean)
  BY <1>2 DEF SameRequest
<1> QED
  BY <1>2, <1>3, <1>5, <1>6, RankStays

LEMMA ReplyTendsRank ==
  ASSUME AchievementsInv, ScriptInv, ValueInv, RankTended, NEW p \in Processes, Reply(p)
  PROVE  RankTended'
<1>1. /\ At(p, "reply") /\ frame' = [frame EXCEPT ![p] = Idle]
      /\ UNCHANGED <<ledger, entry, events, notices, silent>>
      /\ unranked' = unranked \ {r \in Ranked(p) : frame[p].clean /\ entry[r[2]].base # Unset}
  BY DEF Reply, store
<1>2. frame'[p] = Idle /\ \A q \in Processes \ {p} : frame'[q] = frame[q]
  BY <1>1 DEF AchievementsInv, FramesHold
<1> SUFFICES ASSUME ~silent', NEW R, R = Rank(XpOf(ledger')), R > 1 PROVE RankTendedAt(R)'
  BY DEF RankTended
<1>3. RankTendedAt(R)
  BY <1>1 DEF RankTended
<1>4. ~Announces(frame[p], R, entry, events)
  BY <1>1, ReplyAnnouncesNone
<1>5. Idle.base = Unset
  BY DEF Idle
<1>6. \A q \in Processes :
        \/ SameRequest(frame[q], frame'[q]) /\ (frame'[q].clean => frame[q].clean)
        \/ ~Announces(frame[q], R, entry, events) /\ frame'[q].base = Unset
  BY <1>2, <1>4, <1>5 DEF SameRequest
<1>7. ASSUME NEW r \in unranked, \A q \in Processes : ~Heals(frame[q], r, entry)
      PROVE  r \in unranked'
  <2>1. ~Heals(frame[p], r, entry)
    BY <1>7
  <2>2. ~(r \in Ranked(p) /\ frame[p].clean /\ entry[r[2]].base # Unset)
    BY <2>1 DEF Heals, Ranked
  <2> QED
    BY <1>1, <2>2
<1>8. EntriesStay
  BY <1>1 DEF EntriesStay
<1> QED
  BY <1>1, <1>3, <1>6, <1>7, <1>8, RankStays

LEMMA StartTendsRank ==
  ASSUME AchievementsInv, ScriptInv, ValueInv, RankTended, NEW p \in Processes,
         Award(p) \/ Read(p) \/ Upgrade(p)
  PROVE  RankTended'
<1>1. /\ frame[p].op = "idle" /\ \A q \in Processes \ {p} : frame'[q] = frame[q]
      /\ frame'[p].base = Unset
      /\ UNCHANGED <<ledger, entry, events, notices, silent, unranked>>
  BY StartsFresh DEF store, history, Fresh
<1> SUFFICES ASSUME ~silent', NEW R, R = Rank(XpOf(ledger')), R > 1 PROVE RankTendedAt(R)'
  BY DEF RankTended
<1>2. RankTendedAt(R)
  BY <1>1 DEF RankTended
<1>3. ~Announces(frame[p], R, entry, events)
  BY <1>1, ReplyAnnouncesNone
<1>4. \A q \in Processes :
        \/ SameRequest(frame[q], frame'[q]) /\ (frame'[q].clean => frame[q].clean)
        \/ ~Announces(frame[q], R, entry, events) /\ frame'[q].base = Unset
  BY <1>1, <1>3 DEF SameRequest
<1>5. EntriesStay
  BY <1>1 DEF EntriesStay
<1> QED
  BY <1>1, <1>2, <1>4, <1>5, RankStays

LEMMA CrashTendsRank ==
  ASSUME AchievementsInv, ScriptInv, ValueInv, RankTended, NEW p \in Processes, Crash(p)
  PROVE  RankTended'
<1>1. /\ UNCHANGED <<ledger, entry, events, notices, silent>>
      /\ unranked' = unranked \cup Ranked(p)
  BY DEF Crash, store
<1>2. /\ \A q \in Processes : frame'[q].clean => frame'[q].op = "idle"
      /\ frame'[p] = Idle
      /\ \A q \in Processes \ {p} : SameRequest(frame[q], frame'[q])
  BY CrashDisturbs
<1> SUFFICES ASSUME ~silent', NEW R, R = Rank(XpOf(ledger')), R > 1 PROVE RankTendedAt(R)'
  BY DEF RankTended
<1>3. RankTendedAt(R) /\ R = Rank(XpOf(ledger))
  BY <1>1 DEF RankTended
<1>4. Idle.base = Unset
  BY DEF Idle
\* Nobody heals any more: who has a baseline is busy, and who is busy is disturbed.
<1>5. ASSUME NEW q \in Processes, NEW r PROVE ~Heals(frame'[q], r, entry')
  <2>1. CASE q = p
    BY <1>2, <1>4, <2>1 DEF Heals
  <2>2. CASE q # p
    <3>1. SameRequest(frame[q], frame'[q])
      BY <1>2, <2>2
    <3>2. frame[q].base # Unset => frame[q].op # "idle"
      BY BaselineFacts
    <3> QED
      BY <1>2, <3>1, <3>2 DEF Heals, SameRequest
  <2> QED
    BY <2>1, <2>2
<1>6. CASE Announces(frame[p], R, entry, events)
  <2>1. PICK a \in Activities : frame[p].owed = {Activity(a)}
    BY <1>6, BaselineFacts DEF Announces, AwardHolds
  <2>2. Activity(a) \in unranked'
    BY <1>1, <1>6, <2>1 DEF Announces, Ranked
  <2>3. entry[a].base < Thresholds[R]
    <3>1. Baseline(frame[p], a, entry) < Thresholds[R]
      BY <1>6, <2>1 DEF Announces
    <3>2. Thresholds[R] \in Nat
      BY <1>3, LedgerXp
    <3> QED
      BY <3>1, <3>2 DEF Baseline, Unset
  <2>4. Activity(a)[2] = a
    BY ActivityFacts
  <2> QED
    BY <1>1, <1>5, <2>2, <2>3, <2>4 DEF RankTendedAt
<1>7. CASE ~Announces(frame[p], R, entry, events)
  <2>1. CASE RankEvent(R) \in events \cap notices
    BY <1>1, <2>1 DEF RankTendedAt
  <2>2. CASE \E q \in Processes : Announces(frame[q], R, entry, events)
    <3>1. PICK q \in Processes : Announces(frame[q], R, entry, events)
      BY <2>2
    <3>2. q # p
      BY <1>7, <3>1
    <3>3. EntriesStay
      BY <1>1 DEF EntriesStay
    <3>4. SameRequest(frame[q], frame'[q])
      BY <1>2, <3>2
    <3>5. Announces(frame'[q], R, entry', events')
      BY <1>1, <3>1, <3>3, <3>4, SameAnnounces
    <3> QED
      BY <3>5 DEF RankTendedAt
  <2>3. CASE \E r \in unranked : entry[r[2]].base < Thresholds[R]
    BY <1>1, <1>5, <2>3 DEF RankTendedAt
  <2> QED
    BY <1>3, <2>1, <2>2, <2>3 DEF RankTendedAt
<1> QED
  BY <1>6, <1>7

LEMMA NextTendsRank ==
  ASSUME AchievementsInv, ScriptInv, ValueInv, RankTended, [Next]_vars
  PROVE  RankTended'
<1>1. AchievementsInv'
  BY NextHolds
<1>2. ASSUME Elsewhere PROVE RankTended'
  <2>1. UNCHANGED <<ledger, entry, events, notices, frame, silent, unranked>>
    BY <1>2 DEF Elsewhere, store, history
  <2> QED
    BY <2>1 DEF RankTended, RankTendedAt
<1>3. ASSUME NEW p \in Processes, Award(p) \/ Read(p) \/ Upgrade(p) PROVE RankTended'
  BY <1>3, StartTendsRank
<1>4. ASSUME NEW p \in Processes, Reply(p) PROVE RankTended'
  BY <1>4, ReplyTendsRank
<1>5. ASSUME NEW p \in Processes, Restore(p) PROVE RankTended'
  BY <1>1, <1>5, RestoreTendsRank
<1>6. ASSUME NEW p \in Processes, Crash(p) PROVE RankTended'
  BY <1>6, CrashTendsRank
<1>7. ASSUME NEW p \in Processes, NEW k, NEW s, Moves(p, k, s) PROVE RankTended'
  BY <1>1, <1>7, MovesTendRank
<1> QED
  BY <1>2, <1>3, <1>4, <1>5, <1>6, <1>7, NextIs

LEMMA TendedIsAnnounced ==
  ASSUME AchievementsInv, ScriptInv, RankTended
  PROVE  RankAnnounced
<1> SUFFICES ASSUME AtRest, ~silent, unranked = {}, NEW R, R = Rank(XpOf(ledger)), R > 1
             PROVE  RankEvent(R) \in events \cap notices
  BY DEF RankAnnounced
<1>1. RankTendedAt(R)
  BY DEF RankTended
<1>2. \A p \in Processes : ~Announces(frame[p], R, entry, events)
  BY ReplyAnnouncesNone DEF AtRest
<1> QED
  BY <1>1, <1>2 DEF RankTendedAt

-----------------------------------------------------------------------------
(* The achievements settle.                                                *)

Tended == ScriptInv /\ ValueInv /\ ProfileTended /\ BadgesTended /\ RankTended

LEMMA InitTends == Init => Tended
<1> SUFFICES ASSUME Init PROVE Tended
  OBVIOUS
<1>1. ScriptInv /\ ValueInv
  BY InitKnows
<1>2. ProfileTended
  BY DEF Init, ProfileTended
<1>3. BadgesTended
  BY NothingDeserved DEF Init, BadgesTended
<1>4. RankTended
  BY NoRank DEF Init, RankTended
<1> QED
  BY <1>1, <1>2, <1>3, <1>4 DEF Tended

\* Whatever is behind the ledger is tended by a request that is on its way: the profile by a
\* recalculation ahead of it, a badge by an evaluation or by what is left of its award, a
\* rank by an award that will compare it with a lower baseline.
THEOREM AchievementsTended == Spec => []Tended
<1>1. Init => AchievementsInv /\ Tended
  BY InitHolds, InitTends
<1>2. AchievementsInv /\ Tended /\ [Next]_vars => (AchievementsInv /\ Tended)'
  BY NextHolds, NextKeeps, NextTendsProfile, NextTendsBadges, NextTendsRank DEF Tended
<1> QED
  BY <1>1, <1>2, PTL DEF Spec

\* Once every request has replied and none was lost for good, the profile is the projection
\* of the whole ledger, every badge it reaches is owned, paid and told of, and so is its rank
\* (docs/challenges-and-gamification.md:53-60).
THEOREM AchievementsAreSettled == Spec => []AchievementsSettle
<1>1. AchievementsInv /\ Tended => ProfileSettled /\ BadgesSettled /\ RankAnnounced
  BY TendedIsSettled, TendedAreSettled, TendedIsAnnounced DEF Tended
<1>2. ProfileSettled /\ BadgesSettled /\ RankAnnounced /\ RepairedByRead => AchievementsSettle
  BY DEF AchievementsSettle
<1> QED
  BY <1>1, <1>2, AchievementsInvariant, AchievementsTended, ReadsRepair, PTL

=============================================================================
