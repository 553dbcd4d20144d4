------------------------------ MODULE Rewards ------------------------------
(***************************************************************************)
(* The achievements of one user: the reward ledger, the profile projected  *)
(* from it, badges, achievement events and their notifications             *)
(* (gamification.service, gamification-reconciliation.service).            *)
(*                                                                         *)
(* award() runs for a product record that is already committed, and may    *)
(* run again for it; a read of the profile or of the badges repairs what a *)
(* crash left out. All of them interleave at every database call. A        *)
(* request is a script, the calls it has yet to make; a call may put more  *)
(* calls in front of the rest. Truth points are summed like XP, and the    *)
(* current streak follows from the same dates as the longest: both are     *)
(* left out. All badges are active, and the one activity that is no         *)
(* product record, the inspection of evidence, is not among them.          *)
(***************************************************************************)
EXTENDS Integers, Sequences, FiniteSetsExt, SequencesExt

CONSTANTS
  Processes,      \* requests and event handlers that run at once
  Activities,     \* what the user can complete
  Badges,
  Streaks,        \* badges for days in a row; the others count activities
  Target,         \* the threshold of each badge
  ActivityXp, BadgeXp,
  Thresholds,     \* the XP at which each rank begins
  MaxDay, MaxRequests, MaxCrashes \* bounds

Days == 1..MaxDay

ASSUME RewardsAssumption ==
  /\ Streaks \subseteq Badges
  /\ Target \in [Badges -> Nat \ {0}]
  /\ ActivityXp \in [Activities -> Nat]
  /\ BadgeXp \in [Badges -> Nat]
  /\ Thresholds \in Seq(Nat) /\ Len(Thresholds) > 0 /\ Thresholds[1] = 0
  /\ \A i \in 2..Len(Thresholds) : Thresholds[i - 1] < Thresholds[i]
  /\ IsFiniteSet(Badges)
  /\ MaxDay \in Nat \ {0} /\ {MaxRequests, MaxCrashes} \subseteq Nat

Activity(a) == <<"activity", a>>
Badge(b)    == <<"badge", b>>
Day(d)      == <<"day", d>>
References ==
  {Activity(a) : a \in Activities} \cup {Badge(b) : b \in Badges} \cup {Day(d) : d \in Days}

VARIABLES
  today,
  done,      \* the day each activity's product record was committed, or 0
  ledger,    \* the references in reward_transactions: unique per user
  entry,     \* of an activity in the ledger: its day, its rankBaselineXp or Unset
  profile,   \* exists, the entries it was projected from, longest streak, badge
             \* ownerships, whether it was stamped with the current catalog
  owned,     \* user_badges: "no", or whether it was earned "live" or "quiet"
  events, notices, \* achievement events and notifications, by reference
  frame,     \* each request: its script and what it read
  requests, crashes,
  unsettled, unrewarded, \* history: a crash that no later award or read made good, that no
                         \* later award made good
  silent,    \* history: XP was booked by a repair, which announces no rank
  unranked   \* history: activities whose award died between its entry and its rank, and
             \* that no later award made good

vars == <<today, done, ledger, entry, profile, owned, events, notices, frame, requests,
          crashes, unsettled, unrewarded, silent, unranked>>
context == <<today, done, requests, crashes>>
history == <<unsettled, unrewarded, silent, unranked>>
store == <<ledger, entry, profile, owned, events, notices>>

Unset == -1
Xp(r) ==
  IF r[1] = "activity" THEN ActivityXp[r[2]] ELSE IF r[1] = "badge" THEN BadgeXp[r[2]] ELSE 0
XpOf(entries) == Cardinality(UNION {{r} \X (1..Xp(r)) : r \in entries})
DaysOf(entries) == {d \in Days : Day(d) \in entries}

\* calculateRankProgress: the last threshold that the XP reaches.
Rank(xp) == Max({i \in 1..Len(Thresholds) : Thresholds[i] <= xp})

\* calculateStreaks: the run that ends at each date, and the longest of them.
LongestRun(dates) ==
  LET run[d \in 0..MaxDay] == IF d = 0 \/ d \notin dates THEN 0 ELSE run[d - 1] + 1
  IN Max({run[d] : d \in 0..MaxDay})

\* badgeProgress.
Progress(b, entries, longest) ==
  IF b \in Streaks THEN longest
  ELSE Cardinality({a \in Activities : Activity(a) \in entries})

-----------------------------------------------------------------------------
(* Scripts.                                                                *)

None == <<>>
Do(call) == <<call, None>>
Recalculate == <<Do("totals"), Do("dates"), Do("ownerships"), Do("project")>>
Backfill(excluded) ==
  <<<<"reconcile", excluded>>, Do("restore")>> \o Recalculate \o <<Do("badgesQuiet"), Do("stamp")>>
    \o Recalculate
AwardScript(a) ==
  Recalculate \o <<<<"migrate", Activity(a)>>, <<"create", a>>, <<"day", a>>>> \o Recalculate
    \o <<Do("badgesLive")>> \o Recalculate \o <<<<"rank", a>>, Do("reply")>>
ReadScript == Recalculate \o <<Do("inspect"), Do("reply")>>

Unseen == [xp |-> 0, longest |-> 0, current |-> FALSE]
Idle == [op |-> "idle", todo |-> <<>>, total |-> {}, longest |-> 0, badges |-> 0,
         seen |-> Unseen, left |-> {}, made |-> FALSE, base |-> Unset, owed |-> {}, clean |-> TRUE]

Init ==
  /\ today = 1
  /\ done = [a \in Activities |-> 0]
  /\ ledger = {}
  /\ entry = [a \in Activities |-> [day |-> 0, base |-> Unset]]
  /\ profile = [exists |-> FALSE, shows |-> {}, longest |-> 0, badges |-> 0, current |-> FALSE]
  /\ owned = [b \in Badges |-> "no"]
  /\ events = {}
  /\ notices = {}
  /\ frame = [p \in Processes |-> Idle]
  /\ requests = 0
  /\ crashes = 0
  /\ unsettled = FALSE
  /\ unrewarded = FALSE
  /\ silent = FALSE
  /\ unranked = {}

At(p, call) == frame[p].todo # <<>> /\ Head(frame[p].todo)[1] = call
Arg(p) == Head(frame[p].todo)[2]
\* The call returned: f is what the request knows now, script what it does first.
Then(p, f, script) == frame' = [frame EXCEPT ![p] = [f EXCEPT !.todo = script \o Tail(@)]]
Return(p) == Then(p, frame[p], <<>>)

-----------------------------------------------------------------------------
(* The user, the requests, the clock, a crash.                             *)

\* A product service commits its record; the award it asks for then may never come.
Complete(a) ==
  /\ done[a] = 0
  /\ done' = [done EXCEPT ![a] = today]
  /\ UNCHANGED <<today, store, frame, requests, crashes, history>>

NextDay ==
  /\ today < MaxDay
  /\ today' = today + 1
  /\ UNCHANGED <<done, store, frame, requests, crashes, history>>

Durable == {a \in Activities : done[a] # 0}

Start(p, op, script, owed) ==
  /\ frame[p].op = "idle"
  /\ requests < MaxRequests
  /\ requests' = requests + 1
  /\ frame' = [frame EXCEPT ![p] = [Idle EXCEPT !.op = op, !.todo = script, !.owed = owed]]
  /\ UNCHANGED <<today, done, store, crashes, history>>

\* The award of a completed activity, which a retry may ask for again.
Award(p) == \E a \in Durable : Start(p, "award", AwardScript(a), {Activity(a)})

\* getProfile, listBadges.
Read(p) == Start(p, "read", ReadScript, {Activity(a) : a \in Durable})

\* backfillExistingUsers, when it comes to this user.
Upgrade(p) ==
  Start(p, "upgrade",
        (IF ~profile.exists THEN Recalculate \o <<<<"migrate", None>>>>
         ELSE IF profile.current THEN <<>> ELSE Backfill(None)) \o <<Do("reply")>>, {})

\* The activity of an award that has its entry: the award will compare ranks, or has.
Ranked(p) == IF frame[p].base = Unset THEN {} ELSE frame[p].owed

Reply(p) ==
  /\ At(p, "reply")
  /\ frame' = [frame EXCEPT ![p] = Idle]
  /\ unsettled' = (unsettled /\ ~(frame[p].clean /\ frame[p].op # "upgrade"))
  /\ unrewarded' = (unrewarded /\ ~(frame[p].clean /\ frame[p].op = "award"))
  /\ unranked' = unranked \ {r \in Ranked(p) : frame[p].clean /\ entry[r[2]].base # Unset}
  /\ UNCHANGED <<context, store, silent>>

\* A request dies, or a database call of it raises.
Crash(p) ==
  /\ frame[p].op # "idle"
  /\ crashes < MaxCrashes
  /\ crashes' = crashes + 1
  /\ frame' = [q \in Processes |-> IF q = p THEN Idle
                                    ELSE [frame[q] EXCEPT !.clean = frame[q].op = "idle"]]
  /\ unsettled' = TRUE
  /\ unrewarded' = TRUE
  /\ unranked' = unranked \cup Ranked(p)
  /\ UNCHANGED <<today, done, store, requests, silent>>

-----------------------------------------------------------------------------
(* createTransaction: the unique index on user and reference decides.      *)

Book(r) == ledger' = ledger \cup {r}
BookActivity(a, day, base) ==
  /\ Book(Activity(a))
  /\ entry' = IF Activity(a) \in ledger THEN entry
              ELSE [entry EXCEPT ![a] = [day |-> day, base |-> base]]

-----------------------------------------------------------------------------
(* recalculate: four reads and a conditional write.                        *)

ReadTotals(p) ==
  /\ At(p, "totals")
  /\ Then(p, [frame[p] EXCEPT !.total = ledger], <<>>)
  /\ UNCHANGED <<context, store, history>>

ReadDates(p) ==
  /\ At(p, "dates")
  /\ Then(p, [frame[p] EXCEPT !.longest = LongestRun(DaysOf(ledger))], <<>>)
  /\ UNCHANGED <<context, store, history>>

Owned == {b \in Badges : owned[b] # "no"}

CountOwnerships(p) ==
  /\ At(p, "ownerships")
  /\ Then(p, [frame[p] EXCEPT !.badges = Cardinality(Owned)], <<>>)
  /\ UNCHANGED <<context, store, history>>

Projection(p) == [exists |-> TRUE, shows |-> frame[p].total, longest |-> frame[p].longest,
                  badges |-> frame[p].badges, current |-> profile.current]
\* Mutant: the last writer wins.
Always(p) == TRUE
\* More transactions than the stored projection, or as many and no fewer badges.
Newer(p) ==
  LET count == Cardinality(frame[p].total)
      stored == Cardinality(profile.shows)
  IN stored < count \/ (stored = count /\ profile.badges <= frame[p].badges)

\* What the caller keeps of the profile it gets; the reads are forgotten.
Returned(f, answer) ==
  [f EXCEPT !.seen = [xp |-> XpOf(answer.shows), longest |-> answer.longest,
                      current |-> answer.current],
            !.total = {}, !.longest = 0, !.badges = 0]

Project(p) ==
  /\ At(p, "project")
  /\ IF profile.exists /\ Newer(p)
     THEN /\ profile' = Projection(p)
          /\ Then(p, Returned(frame[p], Projection(p)), <<>>)
     ELSE /\ IF profile.exists
             THEN Then(p, Returned(frame[p], profile), <<>>)
             ELSE Then(p, frame[p], <<Do("enroll")>>)
          /\ UNCHANGED profile
  /\ UNCHANGED <<context, ledger, entry, owned, events, notices, history>>

\* The first profile: the unique index lets one request create it.
Enroll(p) ==
  /\ At(p, "enroll")
  /\ profile' = IF profile.exists THEN profile ELSE Projection(p)
  /\ Then(p, Returned(frame[p], profile'), <<>>)
  /\ UNCHANGED <<context, ledger, entry, owned, events, notices, history>>

-----------------------------------------------------------------------------
(* ensureAchievementBackfill and repairDurableActivityRewards.             *)

\* award: history first, unless the profile has the current catalog.
Migrate(p) ==
  /\ At(p, "migrate")
  /\ IF frame[p].seen.current
     THEN Return(p)
     ELSE Then(p, [frame[p] EXCEPT !.seen = Unseen], Backfill(Arg(p)))
  /\ UNCHANGED <<context, store, history>>

\* A read: the backfill, or the repair of what was committed and not rewarded.
Inspect(p) ==
  /\ At(p, "inspect")
  /\ Then(p, [frame[p] EXCEPT !.seen = Unseen],
          IF frame[p].seen.current
          THEN <<<<"reconcile", None>>, Do("restore"), Do("repaired")>>
          ELSE Backfill(None))
  /\ UNCHANGED <<context, store, history>>

\* rewards(): the activities on record and the days they were completed on.
Rewarded(excluded) ==
  LET facts == {a \in Durable : Activity(a) # excluded}
  IN {Activity(a) : a \in facts} \cup {Day(done[a]) : a \in facts}

Reconcile(p) ==
  /\ At(p, "reconcile")
  /\ Then(p, [frame[p] EXCEPT !.left = Rewarded(Arg(p)), !.made = FALSE], <<>>)
  /\ UNCHANGED <<context, store, history>>

\* Sorted by the time of the activity, a day after the activities it is of.
DayOf(r) == IF r[1] = "day" THEN 2 * r[2] + 1 ELSE 2 * done[r[2]]
Earliest(rewards) == {r \in rewards : \A q \in rewards : DayOf(r) <= DayOf(q)}

Restore(p) ==
  /\ At(p, "restore")
  /\ frame[p].left # {}
  /\ \E r \in Earliest(frame[p].left) :
       /\ IF r[1] = "activity"
          THEN BookActivity(r[2], done[r[2]], Unset)
          ELSE Book(r) /\ UNCHANGED entry
       /\ silent' = (silent \/ (r \notin ledger /\ Xp(r) > 0))
       /\ frame' = [frame EXCEPT ![p].left = @ \ {r}, ![p].made = @ \/ r \notin ledger]
  /\ UNCHANGED <<context, profile, owned, events, notices, unsettled, unrewarded, unranked>>

Restored(p) ==
  /\ At(p, "restore")
  /\ frame[p].left = {}
  /\ Return(p)
  /\ UNCHANGED <<context, store, history>>

Repaired(p) ==
  /\ At(p, "repaired")
  /\ Then(p, [frame[p] EXCEPT !.made = FALSE],
          IF frame[p].made THEN Recalculate \o <<Do("badgesLive")>> \o Recalculate ELSE <<>>)
  /\ UNCHANGED <<context, store, history>>

Stamp(p) ==
  /\ At(p, "stamp")
  /\ profile' = [profile EXCEPT !.current = TRUE]
  /\ Return(p)
  /\ UNCHANGED <<context, ledger, entry, owned, events, notices, history>>

-----------------------------------------------------------------------------
(* award(): the entry, its day, and the rank it leads to.                  *)

\* Mutant: an award that finds its entry has nothing left to do.
CreateOrReturn(p) ==
  /\ At(p, "create")
  /\ BookActivity(Arg(p), today, frame[p].seen.xp)
  /\ IF Activity(Arg(p)) \in ledger
     THEN frame' = [frame EXCEPT ![p].todo = <<Do("reply")>>]
     ELSE Then(p, [frame[p] EXCEPT !.seen = Unseen, !.base = frame[p].seen.xp], <<>>)
  /\ UNCHANGED <<context, profile, owned, events, notices, history>>
\* rankBaselineXp is what the profile showed before.
CreateEntry(p) ==
  /\ At(p, "create")
  /\ BookActivity(Arg(p), today, frame[p].seen.xp)
  /\ Then(p, [frame[p] EXCEPT !.seen = Unseen, !.base = frame[p].seen.xp], <<>>)
  /\ UNCHANGED <<context, profile, owned, events, notices, history>>

\* ensureDailyActivityForReward: the day of the entry, which may be an older one.
CreateDay(p) ==
  LET a == Arg(p) IN
  /\ At(p, "day")
  /\ ledger' = ledger \cup {Day(entry[a].day)}
  /\ Return(p)
  /\ UNCHANGED <<context, entry, profile, owned, events, notices, history>>

RankEvent(n) == <<"rank", n>>
\* The baseline of the entry; for one that a repair booked, what the profile showed before.
BaseOf(p, a) == IF entry[a].base = Unset THEN frame[p].base ELSE entry[a].base

CompareRanks(p) ==
  LET before == BaseOf(p, Arg(p))
      now == frame[p].seen.xp
  IN
  /\ At(p, "rank")
  /\ Then(p, frame[p],
          IF Rank(before) # Rank(now) /\ now > before
          THEN <<<<"event", RankEvent(Rank(now))>>, <<"notify", RankEvent(Rank(now))>>>>
          ELSE <<>>)
  /\ UNCHANGED <<context, store, history>>

-----------------------------------------------------------------------------
(* evaluateBadges, one badge after another.                                *)

Reached(b, entries, longest) == Progress(b, entries, longest) >= Target[b]

\* Own it, write its transaction, celebrate it: for each badge in turn.
BadgeScript(how, order) ==
  [i \in 1..3 * Len(order) |->
     <<IF i % 3 = 1 THEN how ELSE IF i % 3 = 2 THEN "medal" ELSE "tell", order[(i + 2) \div 3]>>]

Evaluate(p, how) ==
  LET reached == {b \in Badges : Reached(b, ledger, frame[p].seen.longest)}
  IN Then(p, [frame[p] EXCEPT !.seen = Unseen, !.made = FALSE], BadgeScript(how, SetToSeq(reached)))

EvaluateLive(p) ==
  /\ At(p, "badgesLive")
  /\ Evaluate(p, "live")
  /\ UNCHANGED <<context, store, history>>

EvaluateQuietly(p) ==
  /\ At(p, "badgesQuiet")
  /\ Evaluate(p, "quiet")
  /\ UNCHANGED <<context, store, history>>

\* The unique index on user and badge: the first ownership says how it was earned.
Own(p) ==
  \E how \in {"live", "quiet"} :
    /\ At(p, how)
    /\ owned' = [owned EXCEPT ![Arg(p)] = IF @ = "no" THEN how ELSE @]
    /\ Return(p)
    /\ UNCHANGED <<context, ledger, entry, profile, events, notices, history>>

\* Its transaction is written again each time: the owner may have died before it.
Medal(p) ==
  /\ At(p, "medal")
  /\ Book(Badge(Arg(p)))
  /\ silent' = (silent \/ (frame[p].base = Unset /\ Badge(Arg(p)) \notin ledger
                             /\ BadgeXp[Arg(p)] > 0))
  /\ Return(p)
  /\ UNCHANGED <<context, entry, profile, owned, events, notices, unsettled, unrewarded,
                 unranked>>

\* A badge that was earned live is celebrated.
Tell(p) ==
  LET b == Arg(p) IN
  /\ At(p, "tell")
  /\ Then(p, frame[p],
          IF owned[b] = "live"
          THEN Recalculate \o <<<<"event", Badge(b)>>, <<"notify", Badge(b)>>>>
          ELSE <<>>)
  /\ UNCHANGED <<context, store, history>>

CreateEvent(p) ==
  /\ At(p, "event")
  /\ events' = events \cup {Arg(p)}
  /\ Return(p)
  /\ UNCHANGED <<context, ledger, entry, profile, owned, notices, history>>

\* notifications.dispatch with the same reference.
Notify(p) ==
  /\ At(p, "notify")
  /\ notices' = notices \cup {Arg(p)}
  /\ Return(p)
  /\ UNCHANGED <<context, ledger, entry, profile, owned, events, history>>

-----------------------------------------------------------------------------
Step(p) ==
  \/ ReadTotals(p) \/ ReadDates(p) \/ CountOwnerships(p) \/ Project(p) \/ Enroll(p)
  \/ Migrate(p) \/ Inspect(p) \/ Reconcile(p) \/ Restore(p) \/ Restored(p) \/ Repaired(p)
  \/ Stamp(p) \/ CreateEntry(p) \/ CreateDay(p) \/ CompareRanks(p)
  \/ EvaluateLive(p) \/ EvaluateQuietly(p) \/ Own(p) \/ Medal(p) \/ Tell(p)
  \/ CreateEvent(p) \/ Notify(p) \/ Reply(p)

Next ==
  \/ NextDay
  \/ \E a \in Activities : Complete(a)
  \/ \E p \in Processes : Award(p) \/ Read(p) \/ Upgrade(p) \/ Step(p) \/ Crash(p)

Spec == Init /\ [][Next]_vars

-----------------------------------------------------------------------------
(* Properties.                                                             *)

Contract == INSTANCE RewardLedger WITH
  References <- References,
  Activities <- {Activity(a) : a \in Activities},
  earned     <- {Activity(a) : a \in {x \in Activities : done[x] # 0}},
  ledger     <- ledger,
  shown      <- profile.shows

\* "reward_transactions is the append-only source of truth. Each user and idempotency
\* reference pair is unique"; "Gamification profiles are rebuildable caches"
\* (docs/challenges-and-gamification.md:53-60).
Promise == Contract!Spec

AtRest == \A p \in Processes : frame[p].op = "idle"

\* However the recalculations of several requests interleave, the profile they leave
\* behind is the projection of the whole ledger and of all badges.
ProfileSettled ==
  AtRest /\ ~unsettled /\ profile.exists =>
    /\ profile.shows = ledger
    /\ profile.longest =
         Max({0} \cup {Cardinality(x[1]..x[2]) :
                         x \in {y \in Days \X Days : y[1]..y[2] \subseteq DaysOf(ledger)}})
    /\ profile.badges = Cardinality(Owned)

\* "if a producer committed and its synchronous reward write failed, the next
\* achievement read reconstructs only the missing ledger facts"
\* (gamification.service.ts:932-937): the activity and the day it was done on.
RepairedByRead ==
  \A p \in Processes :
    frame[p].op = "read" /\ At(p, "reply") =>
      \A r \in frame[p].owed : r \in ledger /\ Day(done[r[2]]) \in ledger

\* A badge that the ledger reaches is owned and paid, and if it was earned
\* live its event and its notification exist, unless a request died and no award was
\* made since: a read repairs the ledger, but looks at badges only if it found a gap.
BadgesSettled ==
  AtRest /\ ~unrewarded =>
    /\ \A b \in Badges :
         Progress(b, ledger, LongestRun(DaysOf(ledger))) >= Target[b] => owned[b] # "no"
    /\ \A b \in Owned : Badge(b) \in ledger
    /\ \A b \in Badges : owned[b] = "live" => Badge(b) \in events \cap notices

\* The rank that the ledger's XP amounts to was announced, unless a repair booked XP or
\* an award died on its way and was not made again: that of another activity will not do.
RankAnnounced ==
  AtRest /\ ~silent /\ unranked = {} =>
    LET rank == Rank(XpOf(ledger))
    IN rank > 1 => RankEvent(rank) \in events \cap notices

\* The achievements settle: profile, badges and rank agree with the ledger, and the
\* ledger with what was completed.
AchievementsSettle == ProfileSettled /\ RepairedByRead /\ BadgesSettled /\ RankAnnounced
=============================================================================
