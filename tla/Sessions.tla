------------------------------ MODULE Sessions ------------------------------
(***************************************************************************)
(* Sign-in of one account: api/auth/services/auth.service.ts, with the     *)
(* user updates it calls (api/users/users.service.ts), the check of an     *)
(* access token (api/auth/strategies/jwt.strategy.ts) and the one          *)
(* administrator operation that closes sessions from outside               *)
(* (api/admin/services/admin.service.ts changeStatus).                     *)
(*                                                                         *)
(* Each request is a process that makes one database round trip per step   *)
(* and keeps what it read in req[p]; between two steps any other request   *)
(* may run, and a request may end early (Abandon: a crash or a failed      *)
(* call).  Steps that only read and then refuse have no action: they       *)
(* change nothing.                                                         *)
(*                                                                         *)
(* Abstractions.  A refresh token is the pair of its session and its       *)
(* serial number; the stored keyed hash is the serial it was made from.    *)
(* Every session has a family of its own (createSession), so a family is   *)
(* a session.  SUSPENDED stands for SUSPENDED and DISABLED, which this     *)
(* code treats alike.  The erasure of an account is not part of this       *)
(* module.  recordLogin writes two timestamps nothing here reads, and      *)
(* publishSecurityAlert appends to the outbox (module Outbox) and          *)
(* swallows its own failure: neither is a step.                            *)
(***************************************************************************)
EXTENDS Integers, FiniteSets

CONSTANTS
    Procs,         \* requests that can be in flight at once
    Passwords,
    Addresses,     \* client addresses as express reports them (request.ip)
    Agents,        \* user agents
    MaxSessions, MaxSerial, MaxLinks, MaxTime, MaxRequests,  \* bounds
    SessionTtl, LinkTtl, Grace, Cooldown

ASSUME SessionsAssumption ==
    /\ {MaxSessions, MaxSerial, MaxLinks, MaxTime, MaxRequests} \subseteq Nat
    /\ {SessionTtl, LinkTtl, Grace, Cooldown} \subseteq Nat
    /\ MaxSerial >= 1

VARIABLES
    account,      \* the users document: status and password
    session,      \* the sessions collection
    link,         \* the auth_tokens collection
    req,          \* what each request in flight holds
    now,          \* wall-clock time, in coarse units
    started,      \* requests started so far
    history       \* what happened, for the properties only

vars == <<account, session, link, req, now, started, history>>

SessionIds == 1 .. MaxSessions
LinkIds    == 1 .. MaxLinks
Statuses   == {"NONE", "PENDING_VERIFICATION", "ACTIVE", "SUSPENDED",
               "DELETION_PENDING"}

(* tokenService.hash *)
Hashed(address) == <<"keyed hash", address>>
Plain(address)  == <<"plain", address>>
Contexts == [ip : {Plain(a) : a \in Addresses}, agent : Agents]

NoContext == [ip |-> <<"plain", "">>, agent |-> ""]
NoUser    == [status |-> "NONE", password |-> ""]
NoSession == [state |-> "absent", serial |-> 0, lastUsedAt |-> 0,
              expiresAt |-> 0, context |-> NoContext]
NoLink    == [state |-> "absent", purpose |-> "", createdAt |-> 0,
              expiresAt |-> 0]
Idle      == [at |-> "idle", s |-> 0, serial |-> 0, l |-> 0, user |-> NoUser,
              password |-> "", status |-> "NONE", context |-> NoContext]

-----------------------------------------------------------------------------
(* The conditions the code tests.                                          *)

(* assertLoginAllowed: only an active account signs in or refreshes. *)
AssertLoginAllowed(status) == status = "ACTIVE"

(* JwtStrategy.validate lets a deletion-pending account through as well. *)
MayUseAccessToken(status) == status \in {"ACTIVE", "DELETION_PENDING"}

NotRevoked(s) == session[s].state = "live"

(* isSessionActive, and the first test of refresh. *)
IsSessionActive(s) == NotRevoked(s) /\ session[s].expiresAt > now

(* The stored address is the keyed hash of the client's (createSession),   *)
(* the presented one is the plain address (auth.controller.ts:164).        *)
SameSessionContext(s, context) ==
    /\ session[s].context.ip = context.ip
    /\ session[s].context.agent = context.agent

WithinGrace(s) == now - session[s].lastUsedAt <= Grace

RecentlyIssued ==
    \E l \in LinkIds :
        /\ link[l].state = "open"
        /\ link[l].purpose = "EMAIL_VERIFICATION"
        /\ link[l].createdAt > now - Cooldown

Fresh(ids, store) == {i \in ids : store[i].state = "absent"}
OneOf(ids) == CHOOSE i \in ids : TRUE

-----------------------------------------------------------------------------
(* Requests: how they start, move on and end.                              *)

Go(p, r) == req' = [req EXCEPT ![p] = r]
At(p, step) == req[p].at = step
Done(p) == Go(p, Idle)

Start(p, r) ==
    /\ At(p, "idle")
    /\ started < MaxRequests
    /\ started' = started + 1
    /\ Go(p, r)

(* Sessions a revocation closes; updateMany and updateOne filter on        *)
(* revokedAt or set it again, to the same effect.                          *)
Revoke(ids) ==
    session' = [s \in SessionIds |->
                  IF s \in ids /\ NotRevoked(s)
                  THEN [session[s] EXCEPT !.state = "revoked"]
                  ELSE session[s]]

SetStatus(status) == account' = [account EXCEPT !.status = status]

-----------------------------------------------------------------------------
(* Registration and e-mail verification.                                   *)

Register(p, password) ==
    /\ account.status = "NONE"
    /\ Start(p, [Idle EXCEPT !.at = "issue.delete"])
    /\ account' = [status |-> "PENDING_VERIFICATION", password |-> password]
    /\ UNCHANGED <<session, link, now, history>>

ResendVerification(p) ==
    /\ account.status = "PENDING_VERIFICATION"
    /\ ~RecentlyIssued
    /\ Start(p, [Idle EXCEPT !.at = "issue.delete"])
    /\ UNCHANGED <<account, session, link, now, history>>

(* issueEmailVerification first deletes the links not yet consumed. *)
IssueDelete(p) ==
    /\ At(p, "issue.delete")
    /\ link' = [l \in LinkIds |->
                  IF link[l].state = "open" /\ link[l].purpose = "EMAIL_VERIFICATION"
                  THEN [link[l] EXCEPT !.state = "deleted"]
                  ELSE link[l]]
    /\ Go(p, [Idle EXCEPT !.at = "issue.create"])
    /\ UNCHANGED <<account, session, now, started, history>>

CreateAuthToken(purpose) ==
    /\ Fresh(LinkIds, link) # {}
    /\ link' = [link EXCEPT ![OneOf(Fresh(LinkIds, link))] =
                  [state |-> "open", purpose |-> purpose,
                   createdAt |-> now, expiresAt |-> now + LinkTtl]]

IssueCreate(p) ==
    /\ At(p, "issue.create")
    /\ CreateAuthToken("EMAIL_VERIFICATION")
    /\ Done(p)
    /\ UNCHANGED <<account, session, now, started, history>>

(* consumeToken: one conditional update. *)
Consumable(l, purpose) ==
    /\ link[l].state = "open"
    /\ link[l].purpose = purpose
    /\ link[l].expiresAt > now

ConsumeToken(l, purpose) ==
    /\ Consumable(l, purpose)
    /\ link' = [link EXCEPT ![l].state = "consumed"]

VerifyEmail(p, l) ==
    /\ ConsumeToken(l, "EMAIL_VERIFICATION")
    /\ Start(p, [Idle EXCEPT !.at = "activate"])
    /\ UNCHANGED <<account, session, now, history>>

\* Mutant: without the status in the filter.
MayActivateAny == account.status # "NONE"
(* usersService.activate updates only an account that is still pending. *)
MayActivate == account.status = "PENDING_VERIFICATION"

Activate(p) ==
    /\ At(p, "activate")
    /\ IF MayActivate THEN SetStatus("ACTIVE") ELSE UNCHANGED account
    /\ Done(p)
    /\ UNCHANGED <<session, link, now, started, history>>

-----------------------------------------------------------------------------
(* Sign-in, rotation, sign-out.                                            *)

(* login reads the account, compares the password with the copy it read    *)
(* and tests that copy's status. *)
Login(p, password, context) ==
    /\ account.password = password
    /\ AssertLoginAllowed(account.status)
    /\ Start(p, [Idle EXCEPT !.at = "login.create", !.user = account,
                             !.context = context])
    /\ UNCHANGED <<account, session, link, now, history>>

(* createSession hashes the address before it stores it. *)
CreateSession(p) ==
    /\ At(p, "login.create")
    /\ Fresh(SessionIds, session) # {}
    /\ LET s == OneOf(Fresh(SessionIds, session)) IN
        /\ session' = [session EXCEPT ![s] =
                         [state |-> "live", serial |-> 1, lastUsedAt |-> now,
                          expiresAt |-> now + SessionTtl,
                          context |-> [req[p].context EXCEPT !.ip = Hashed(@[2])]]]
        /\ history' = [history EXCEPT
                         !.password[s] = req[p].user.password,
                         !.late[s] = req[p].user # account]
    /\ Done(p)
    /\ UNCHANGED <<account, link, now, started>>

(* refresh, first read: the current token goes on, an older one ends the   *)
(* session unless it comes from the same client within the grace period.   *)
RefreshFind(p, s, serial, context) ==
    /\ IsSessionActive(s)
    /\ serial \in 1 .. session[s].serial
    /\ \/ /\ serial = session[s].serial
          /\ Start(p, [Idle EXCEPT !.at = "refresh.user", !.s = s, !.serial = serial])
       \/ /\ serial # session[s].serial
          /\ ~(SameSessionContext(s, context) /\ WithinGrace(s))
          /\ Start(p, [Idle EXCEPT !.at = "refresh.reuse", !.s = s])
    /\ UNCHANGED <<account, session, link, now, history>>

RefreshUser(p) ==
    /\ At(p, "refresh.user")
    /\ IF AssertLoginAllowed(account.status)
       THEN Go(p, [req[p] EXCEPT !.at = "refresh.rotate"])
       ELSE Done(p)
    /\ UNCHANGED <<account, session, link, now, started, history>>

\* Mutant: without the hash in the filter.
RotatableOnceActive(r) == NotRevoked(r.s)
(* The filter of the rotating update. *)
StillRotatable(r) == NotRevoked(r.s) /\ session[r.s].serial = r.serial

RefreshRotate(p) ==
    /\ At(p, "refresh.rotate")
    /\ LET r == req[p] IN
        IF StillRotatable(r)
        THEN /\ session[r.s].serial < MaxSerial
             /\ session' = [session EXCEPT ![r.s].serial = @ + 1,
                                           ![r.s].lastUsedAt = now,
                                           ![r.s].expiresAt = now + SessionTtl]
             /\ history' = [history EXCEPT !.spent[r.s] = @ \cup {r.serial}]
        ELSE UNCHANGED <<session, history>>
    /\ Done(p)
    /\ UNCHANGED <<account, link, now, started>>

(* revokeFamily *)
RefreshReuse(p) ==
    /\ At(p, "refresh.reuse")
    /\ Revoke({req[p].s})
    /\ Done(p)
    /\ UNCHANGED <<account, link, now, started, history>>

(* JwtStrategy.validate reads the account and then the session.  A session *)
(* active at the second read was active at the first, so an accepted call  *)
(* may be taken to have read both at once; then its handler starts.        *)
Authenticated(p, s, r) ==
    /\ MayUseAccessToken(account.status)
    /\ IsSessionActive(s)
    /\ Start(p, r)
    /\ UNCHANGED <<account, session, link, now, history>>

(* logout (target = s) and revokeSession *)
AskRevoke(p, s, target) ==
    /\ session[target].state # "absent"
    /\ Authenticated(p, s, [Idle EXCEPT !.at = "revoke.one", !.s = target])

RevokeOne(p) ==
    /\ At(p, "revoke.one")
    /\ Revoke({req[p].s})
    /\ Done(p)
    /\ UNCHANGED <<account, link, now, started, history>>

AskLogoutAll(p, s) == Authenticated(p, s, [Idle EXCEPT !.at = "revoke.all"])

(* logoutAll, also the last step of a password change, a reset and a       *)
(* suspension. *)
LogoutAll(p) ==
    /\ At(p, "revoke.all")
    /\ Revoke(SessionIds)
    /\ history' = [history EXCEPT !.owed = FALSE]
    /\ Done(p)
    /\ UNCHANGED <<account, link, now, started>>

-----------------------------------------------------------------------------
(* Passwords.                                                              *)

ForgotPassword(p) ==
    /\ account.status # "NONE"
    /\ Start(p, Idle)
    /\ CreateAuthToken("PASSWORD_RESET")
    /\ UNCHANGED <<account, session, now, history>>

ResetPassword(p, l, password) ==
    /\ ConsumeToken(l, "PASSWORD_RESET")
    /\ Start(p, [Idle EXCEPT !.at = "reset.update", !.l = l, !.password = password])
    /\ UNCHANGED <<account, session, now, history>>

\* Mutant: without the logoutAll that follows.
ResetUpdateOnly(p) ==
    /\ At(p, "reset.update")
    /\ account' = [account EXCEPT !.password = req[p].password]
    /\ history' = [history EXCEPT !.resets[req[p].l] = @ + 1]
    /\ Done(p)
    /\ UNCHANGED <<session, link, now, started>>
ResetUpdate(p) ==
    /\ At(p, "reset.update")
    /\ account' = [account EXCEPT !.password = req[p].password]
    /\ history' = [history EXCEPT !.resets[req[p].l] = @ + 1]
    /\ Go(p, [Idle EXCEPT !.at = "revoke.all", !.l = req[p].l])
    /\ UNCHANGED <<session, link, now, started>>

AskChange(p, s, password) ==
    Authenticated(p, s, [Idle EXCEPT !.at = "change.check", !.password = password])

(* changePassword compares both passwords with the copy it reads. *)
ChangeCheck(p) ==
    /\ At(p, "change.check")
    /\ req[p].password # account.password
    /\ Go(p, [req[p] EXCEPT !.at = "change.update"])
    /\ UNCHANGED <<account, session, link, now, started, history>>

ChangeUpdate(p) ==
    /\ At(p, "change.update")
    /\ account' = [account EXCEPT !.password = req[p].password]
    /\ Go(p, [Idle EXCEPT !.at = "revoke.all"])
    /\ UNCHANGED <<session, link, now, started, history>>

-----------------------------------------------------------------------------
(* Account status.                                                         *)

AskDeletion(p, s) == Authenticated(p, s, [Idle EXCEPT !.at = "deletion.request"])
AskCancel(p, s)   == Authenticated(p, s, [Idle EXCEPT !.at = "deletion.cancel"])

(* requestDeletion and cancelDeletion are conditional updates. *)
ChangeDeletion(p, step, from, to) ==
    /\ At(p, step)
    /\ IF account.status = from THEN SetStatus(to) ELSE UNCHANGED account
    /\ Done(p)
    /\ UNCHANGED <<session, link, now, started, history>>

RequestDeletion(p) == ChangeDeletion(p, "deletion.request", "ACTIVE", "DELETION_PENDING")
CancelDeletion(p)  == ChangeDeletion(p, "deletion.cancel", "DELETION_PENDING", "ACTIVE")

(* changeStatus loads the account, assigns the status and saves: mongoose  *)
(* writes the field only when it differs from the loaded one. *)
AdminLoad(p, status) ==
    /\ account.status # "NONE"
    /\ Start(p, [Idle EXCEPT !.at = "admin.save", !.user = account, !.status = status])
    /\ UNCHANGED <<account, session, link, now, history>>

AfterStatus(status) == IF status = "SUSPENDED" THEN "revoke.all" ELSE "idle"

AdminSave(p) ==
    /\ At(p, "admin.save")
    /\ LET r == req[p] IN
        /\ IF r.user.status # r.status THEN SetStatus(r.status) ELSE UNCHANGED account
        /\ Go(p, [Idle EXCEPT !.at = AfterStatus(r.status)])
    /\ UNCHANGED <<session, link, now, started, history>>

-----------------------------------------------------------------------------
(* The environment.                                                        *)

(* A request ends before its last step: the process dies, the database     *)
(* call fails, or the handler refuses. *)
Abandon(p) ==
    /\ req[p].at # "idle"
    /\ Done(p)
    /\ history' = [history EXCEPT !.owed = @ \/ At(p, "revoke.all")]
    /\ UNCHANGED <<account, session, link, now, started>>

(* MongoDB's TTL monitor and the retention job delete expired sessions. *)
ExpireSession(s) ==
    /\ session[s].state \in {"live", "revoked"}
    /\ session[s].expiresAt <= now
    /\ session' = [session EXCEPT ![s].state = "deleted"]
    /\ UNCHANGED <<account, link, req, now, started, history>>

Tick ==
    /\ now < MaxTime
    /\ now' = now + 1
    /\ UNCHANGED <<account, session, link, req, started, history>>

-----------------------------------------------------------------------------
Init ==
    /\ account \in {NoUser} \cup [status : {"ACTIVE"}, password : Passwords]
    /\ session = [s \in SessionIds |-> NoSession]
    /\ link = [l \in LinkIds |-> NoLink]
    /\ req = [p \in Procs |-> Idle]
    /\ now = 0
    /\ started = 0
    /\ history = [password |-> [s \in SessionIds |-> ""],
                  late     |-> [s \in SessionIds |-> FALSE],
                  spent    |-> [s \in SessionIds |-> {}],
                  resets   |-> [l \in LinkIds |-> 0],
                  owed     |-> FALSE]

LinkRequest(p) ==
    \/ \E w \in Passwords : Register(p, w)
    \/ ResendVerification(p) \/ IssueDelete(p) \/ IssueCreate(p)
    \/ \E l \in LinkIds : VerifyEmail(p, l)
    \/ Activate(p)
    \/ ForgotPassword(p)
    \/ \E l \in LinkIds, w \in Passwords : ResetPassword(p, l, w)
    \/ ResetUpdate(p)

SessionRequest(p) ==
    \/ \E w \in Passwords, c \in Contexts : Login(p, w, c)
    \/ CreateSession(p)
    \/ \E s \in SessionIds, n \in 1 .. MaxSerial, c \in Contexts : RefreshFind(p, s, n, c)
    \/ RefreshUser(p) \/ RefreshRotate(p) \/ RefreshReuse(p)
    \/ \E s, t \in SessionIds : AskRevoke(p, s, t)
    \/ \E s \in SessionIds : AskLogoutAll(p, s)
    \/ RevokeOne(p) \/ LogoutAll(p)

AccountRequest(p) ==
    \/ \E s \in SessionIds, w \in Passwords : AskChange(p, s, w)
    \/ ChangeCheck(p) \/ ChangeUpdate(p)
    \/ \E s \in SessionIds : AskDeletion(p, s) \/ AskCancel(p, s)
    \/ RequestDeletion(p) \/ CancelDeletion(p)
    \/ \E status \in {"ACTIVE", "SUSPENDED"} : AdminLoad(p, status)
    \/ AdminSave(p)

Next ==
    \/ \E p \in Procs : LinkRequest(p) \/ SessionRequest(p) \/ AccountRequest(p) \/ Abandon(p)
    \/ \E s \in SessionIds : ExpireSession(s)
    \/ Tick

Spec == Init /\ [][Next]_vars

-----------------------------------------------------------------------------
(* Properties.                                                             *)

(* Every variable keeps its shape and its bound; no session stores a plain *)
(* address. *)
Users == [status : Statuses, password : Passwords \cup {""}]
Stored == [ip : {"keyed hash"} \X Addresses, agent : Agents]

SessionOK ==
    session \in [SessionIds ->
        [state : {"absent", "live", "revoked", "deleted"}, serial : 0 .. MaxSerial,
         lastUsedAt : 0 .. MaxTime, expiresAt : 0 .. MaxTime + SessionTtl,
         context : Stored \cup {NoContext}]]

LinkOK ==
    link \in [LinkIds ->
        [state : {"absent", "open", "consumed", "deleted"},
         purpose : {"", "EMAIL_VERIFICATION", "PASSWORD_RESET"},
         createdAt : 0 .. MaxTime, expiresAt : 0 .. MaxTime + LinkTtl]]

Steps == {"idle", "issue.delete", "issue.create", "activate", "login.create",
          "refresh.user", "refresh.rotate", "refresh.reuse", "revoke.one",
          "revoke.all", "reset.update", "change.check", "change.update",
          "deletion.request", "deletion.cancel", "admin.save"}

RequestOK ==
    /\ req \in [Procs ->
          [at : Steps, s : 0 .. MaxSessions, serial : 0 .. MaxSerial,
           l : 0 .. MaxLinks, user : Users, password : Passwords \cup {""},
           status : Statuses, context : Contexts \cup {NoContext}]]
    /\ \A p \in Procs :
          /\ At(p, "login.create") => req[p].context \in Contexts
          /\ req[p].at \in {"refresh.user", "refresh.rotate"} => req[p].s \in SessionIds
          /\ At(p, "reset.update") => req[p].l \in LinkIds

HistoryOK ==
    history \in [password : [SessionIds -> Passwords \cup {""}],
                 late : [SessionIds -> BOOLEAN],
                 spent : [SessionIds -> SUBSET Nat],
                 resets : [LinkIds -> Nat], owed : BOOLEAN]

TypeOK ==
    /\ account \in Users
    /\ SessionOK /\ LinkOK /\ RequestOK /\ HistoryOK
    /\ now \in 0 .. MaxTime
    /\ started \in 0 .. MaxRequests

(* Rotation hands out one successor per token: however refreshes of one    *)
(* session overlap, the tokens exchanged so far are exactly those before   *)
(* the current one, so every token was exchanged at most once             *)
(* (docs/authentication-flow.md:10 "Refresh atomically replaces the stored *)
(* keyed hash"). *)
OneSuccessor ==
    \A s \in SessionIds : history.spent[s] = 1 .. (session[s].serial - 1)

(* A session once revoked stays revoked, and a refresh that was already    *)
(* under way when logout, a password change or a reuse closed it gets no   *)
(* token (docs/error-codes.md:19). *)
RevokedIsFinal ==
    [][\A s \in SessionIds : session[s].state \in {"revoked", "deleted"} =>
          /\ session'[s].state \in {"revoked", "deleted"}
          /\ session'[s].serial = session[s].serial]_vars

(* After a password change or reset no session opened with the old         *)
(* password is usable, and none at all while the account is suspended,     *)
(* however refreshes and sign-ins overlap (docs/authentication-flow.md:12, *)
(* admin.controller.ts:58 "Change account status and revoke sessions when  *)
(* required").  Three cases remain, and no other: the closing logoutAll is *)
(* still to come; it was cut off by a crash; the session was opened by a   *)
(* sign-in that read the account before the change and wrote its session   *)
(* after it. *)
Outlived(s) ==
    history.password[s] # account.password \/ account.status = "SUSPENDED"

StaleSessionsAreOut ==
    \A s \in SessionIds : IsSessionActive(s) /\ Outlived(s) =>
        \/ \E p \in Procs : At(p, "revoke.all")
        \/ history.owed
        \/ history.late[s]

(* A reset link changes the password at most once, though two requests     *)
(* may present it together. *)
ResetOnce == \A l \in LinkIds : history.resets[l] <= 1

(* What makes ResetOnce inductive: a link no one has consumed reset        *)
(* nothing, and of the requests about to reset each holds a consumed link  *)
(* of its own that has reset nothing yet. *)
ResetsPending ==
    /\ \A l \in LinkIds : link[l].state \in {"absent", "open"} => history.resets[l] = 0
    /\ \A p \in Procs : At(p, "reset.update") =>
          /\ link[req[p].l].state = "consumed"
          /\ history.resets[req[p].l] = 0
          /\ \A q \in Procs : q # p /\ At(q, "reset.update") => req[q].l # req[p].l

(* What makes OneSuccessor inductive: a session's serial numbers start at  *)
(* one when it is created. *)
SerialsStart ==
    \A s \in SessionIds : session[s].state = "absent" <=> session[s].serial = 0

IInv == TypeOK /\ OneSuccessor /\ SerialsStart /\ ResetOnce /\ ResetsPending

(* Only an administrator ends a suspension: a verification link followed,  *)
(* or a deletion cancelled, around the suspension does not. *)
SuspensionHolds ==
    [][account.status = "SUSPENDED" /\ account'.status # "SUSPENDED" =>
          \E p \in Procs : At(p, "admin.save")]_vars

(* What may be exchanged may be exchanged once: a refresh token for its    *)
(* successor and a reset link for a new password, however requests overlap *)
(* (docs/authentication-flow.md:10, :12). *)
SpentOnce == OneSuccessor /\ ResetOnce

(* What was withdrawn stays withdrawn: a revoked session                   *)
(* (docs/error-codes.md:19), and an account's access until an              *)
(* administrator gives it back. *)
WithdrawnStays == RevokedIsFinal /\ SuspensionHolds
=============================================================================
