------------------------------- MODULE Daily -------------------------------
(***************************************************************************)
(* The challenge of the day: schedulers of several replicas make sure that *)
(* today's record exists and that every active user was told of it         *)
(* (daily-challenge.service ensureToday, its generators, and               *)
(* notifications.service broadcast).                                       *)
(*                                                                         *)
(* Content is what the validator and the duplicate check would make of it: *)
(* "good", as the bank's templates are, or "refused". A run dies with its  *)
(* process or when a call of it raises; the next hourly run of the day     *)
(* starts over.                                                            *)
(***************************************************************************)
EXTENDS Integers, FiniteSetsExt

CONSTANTS
  Replicas,
  Users,          \* natural numbers: pages are read in the order of user ids
  PageSize,       \* users in a page of the broadcast (100 in the code)
  AutoPublish,    \* DAILY_CHALLENGE policy
  AiEnabled,
  MaxDay, MaxMishaps, MaxChanges \* bounds

ASSUME DailyAssumption ==
  /\ Users \subseteq Nat \ {0} /\ IsFiniteSet(Users)
  /\ PageSize \in Nat \ {0}
  /\ {AutoPublish, AiEnabled} \subseteq BOOLEAN
  /\ MaxDay \in Nat \ {0} /\ {MaxMishaps, MaxChanges} \subseteq Nat

Days == 1..MaxDay

VARIABLES
  today,
  challenge,   \* of each day: content ("none" without a record), status, broadcast
  active,      \* the users that are active
  wanting,       \* those not deleted that want notifications of this kind
  owner,       \* there is an active super admin
  notices,     \* <<user, day>>: the unique reference of a notification
  run,         \* of each scheduler: step, day, content, cursor, page
  mishaps, changes,
  owed         \* history: of each day, whom the broadcast that ended it had to reach

dailyVars == <<today, challenge, active, wanting, owner, notices, run, mishaps, changes, owed>>
world == <<today, active, wanting, owner, mishaps, changes>>

Absent == [content |-> "none", status |-> "none", broadcast |-> FALSE]
Asleep == [step |-> "asleep", day |-> 1, content |-> "none", cursor |-> 0, page |-> {},
           reach |-> {}]

DailyInit ==
  /\ today = 1
  /\ challenge = [d \in Days |-> Absent]
  /\ active = Users
  /\ wanting = Users
  /\ owner = TRUE
  /\ notices = {}
  /\ run = [s \in Replicas |-> Asleep]
  /\ mishaps = 0
  /\ changes = 0
  /\ owed = [d \in Days |-> {}]

-----------------------------------------------------------------------------
StepTo(s, to) == run' = [run EXCEPT ![s].step = to]

\* The record was announced, or is not published.
Finished(c) == c.broadcast \/ (c.content # "none" /\ c.status # "published")

\* The cron of bootstrap and of every hour.
Wake(s) ==
  LET c == challenge[today] IN
  /\ run[s].step = "asleep"
  /\ ~Finished(c)
  /\ run' = [run EXCEPT ![s] = [Asleep EXCEPT !.step = IF c.content = "none" THEN "owner"
                                                         ELSE "broadcast",
                                              !.day = today,
                                              !.reach = IF c.content = "none" THEN {}
                                                          ELSE active \cap wanting]]
  /\ UNCHANGED <<challenge, notices, world, owed>>

FindOwner(s) ==
  /\ run[s].step = "owner"
  /\ IF owner THEN StepTo(s, "generate") ELSE run' = [run EXCEPT ![s] = Asleep]
  /\ UNCHANGED <<challenge, notices, world, owed>>

\* The router's answer has the schema, and may still be refused.
Generated(s, content) ==
  run' = [run EXCEPT ![s].content = content, ![s].step = "store"]

\* An answer that the validator or the duplicate check refuses stays in `generated`:
\* the bank is only asked when the router gave no answer at all.
Generate(s) ==
  /\ run[s].step = "generate"
  /\ \/ AiEnabled /\ \E content \in {"good", "refused"} : Generated(s, content)
     \/ Generated(s, "good")
  /\ UNCHANGED <<challenge, notices, world, owed>>

\* Mutant: the upsert sets what it should only set on insert.
Overwrite(old, new) == new
SetOnInsert(old, new) == IF old.content = "none" THEN new ELSE old

Store(s) ==
  LET d == run[s].day IN
  /\ run[s].step = "store"
  /\ challenge' = [challenge EXCEPT ![d] = SetOnInsert(@,
       [content |-> run[s].content, broadcast |-> FALSE,
        status |-> IF AutoPublish THEN "published" ELSE "draft"])]
  /\ run' = [run EXCEPT ![s] =
       IF AutoPublish
       THEN [Asleep EXCEPT !.step = "broadcast", !.day = d, !.reach = active \cap wanting]
       ELSE Asleep]
  /\ UNCHANGED <<notices, world, owed>>

\* Mutant: the next page starts two users on.
SkipOne(cursor) == {u \in active : u > cursor + 1}
After(cursor) == {u \in active : u > cursor}

FirstPage(rest) == {u \in rest : Cardinality({v \in rest : v < u}) < PageSize}

\* A page of active users, by id; when none is left the broadcast is over.
NextPage(s) ==
  LET rest == After(run[s].cursor)
      page == FirstPage(rest)
  IN
  /\ run[s].step = "broadcast"
  /\ run[s].page = {}
  /\ IF page = {} THEN StepTo(s, "mark")
     ELSE run' = [run EXCEPT ![s].page = page, ![s].cursor = Max(page),
                             ![s].step = IF Cardinality(page) < PageSize THEN "last" ELSE @]
  /\ UNCHANGED <<challenge, notices, world, owed>>

\* dispatch: nothing for a user who opted out or was deleted meanwhile, but one who was
\* only deactivated is not looked at again; the unique reference keeps one notification
\* per user and day.
Dispatch(s) ==
  /\ run[s].step \in {"broadcast", "last"}
  /\ \E u \in run[s].page :
       /\ run' = [run EXCEPT ![s].page = @ \ {u},
                             ![s].step = IF @ = "last" /\ run[s].page = {u} THEN "mark" ELSE @]
       /\ notices' = IF u \in wanting THEN notices \cup {<<u, run[s].day>>} ELSE notices
  /\ UNCHANGED <<challenge, world, owed>>

\* notificationBroadcastAt.
Mark(s) ==
  LET d == run[s].day IN
  /\ run[s].step = "mark"
  /\ owed' = IF challenge[d].broadcast THEN owed ELSE [owed EXCEPT ![d] = run[s].reach]
  /\ challenge' = [challenge EXCEPT ![d].broadcast = TRUE]
  /\ run' = [run EXCEPT ![s] = Asleep]
  /\ UNCHANGED <<notices, world>>

\* The process dies or a call raises: one failed dispatch fails the whole broadcast.
Fail(s) ==
  /\ run[s].step # "asleep"
  /\ mishaps < MaxMishaps
  /\ mishaps' = mishaps + 1
  /\ run' = [run EXCEPT ![s] = Asleep]
  /\ UNCHANGED <<today, challenge, active, wanting, owner, notices, changes, owed>>

-----------------------------------------------------------------------------
(* The day ends; users come and go and change their mind; editors.         *)

Changed == changes < MaxChanges /\ changes' = changes + 1

NextDay ==
  /\ today < MaxDay
  /\ today' = today + 1
  /\ UNCHANGED <<challenge, active, wanting, owner, notices, run, mishaps, changes, owed>>

\* A user who is no longer active or opted out is not owed what is under way.
Toggle(set, u) == IF u \in set THEN set \ {u} ELSE set \cup {u}
Forget(u) == run' = [s \in Replicas |-> [run[s] EXCEPT !.reach = @ \ {u}]]

ChangeUser ==
  /\ Changed
  /\ \E u \in Users :
       /\ Forget(u)
       /\ \/ active' = Toggle(active, u) /\ UNCHANGED wanting
          \/ wanting' = Toggle(wanting, u) /\ UNCHANGED active
  /\ UNCHANGED <<today, challenge, owner, notices, mishaps, owed>>

ChangeOwner ==
  /\ Changed
  /\ owner' = ~owner
  /\ UNCHANGED <<today, challenge, active, wanting, notices, run, mishaps, owed>>

\* An editor publishes a draft or archives what is published.
ChangeStatus ==
  /\ Changed
  /\ \E d \in Days, status \in {"published", "archived"} :
       /\ challenge[d].content # "none"
       /\ challenge[d].status # status
       /\ challenge' = [challenge EXCEPT ![d].status = status]
  /\ UNCHANGED <<today, active, wanting, owner, notices, run, mishaps, owed>>

Work(s) ==
  Wake(s) \/ FindOwner(s) \/ Generate(s) \/ Store(s) \/ NextPage(s) \/ Dispatch(s) \/ Mark(s)

DailyNext ==
  \/ NextDay \/ ChangeUser \/ ChangeOwner \/ ChangeStatus
  \/ \E s \in Replicas : Work(s) \/ Fail(s)

\* The cron wakes again and again, and a run makes progress.
DailyFairness == \A s \in Replicas : WF_dailyVars(Work(s))

-----------------------------------------------------------------------------
(* Properties.                                                             *)

\* Two replicas that generate for the same day agree: the record that is stored first
\* stays, and users are never moved to other questions.
ContentIsStable ==
  [][\A d \in Days : challenge[d].content # "none" =>
       challenge'[d].content = challenge[d].content]_challenge

\* "notificationBroadcastAt" says that all were told: every user who stayed active and
\* wanting from the start of the broadcast to its end has the notification of the day.
ReachesEveryone ==
  \A d \in Days : challenge[d].broadcast => \A u \in owed[d] : <<u, d>> \in notices

\* A published challenge is announced before its day ends, whatever run dies: the hourly
\* run resumes the broadcast (daily-challenge.service.ts:48-62).
BroadcastCompletes ==
  \A d \in Days :
    (today = d /\ challenge[d].status = "published") ~>
      (challenge[d].broadcast \/ today # d \/ challenge[d].status # "published")
=============================================================================
