--------------------------- MODULE AccountsProofs ---------------------------
(***************************************************************************)
(* Proofs about what an account meets, for any number of requests,         *)
(* sessions, links, schedulers and faults. Sessions: the single successor  *)
(* of a refresh token, the single use of a reset link, the finality of a   *)
(* revocation, and the end of the sessions a password change leaves        *)
(* behind. Notifications: an event that counts as handled told its user,   *)
(* and a mail is sent as often as its record can show.                     *)
(*                                                                         *)
(* Most steps of a session change req and at most one other variable, so   *)
(* the lemmas below say once what starting, advancing and ending a request *)
(* do to RequestOK and ResetsPending.                                      *)
(***************************************************************************)
EXTENDS Sessions, Notifications, TLAPS

-----------------------------------------------------------------------------
(* Requests and sessions.                                                  *)

RequestType ==
    [at : Steps, s : 0 .. MaxSessions, serial : 0 .. MaxSerial,
     l : 0 .. MaxLinks, user : Users, password : Passwords \cup {""},
     status : Statuses, context : Contexts \cup {NoContext}]

(* A request that may replace another one in req. *)
GoodRequest(r) ==
    /\ r \in RequestType
    /\ r.at = "login.create" => r.context \in Contexts
    /\ r.at \in {"refresh.user", "refresh.rotate"} => r.s \in SessionIds
    /\ r.at = "reset.update" => r.l \in LinkIds

(* Replacing one request by a good one keeps RequestOK. *)
LEMMA GoKeepsRequests ==
    ASSUME RequestOK, NEW p \in Procs, NEW r, GoodRequest(r), Go(p, r)
    PROVE  RequestOK'
  BY DEF RequestOK, GoodRequest, RequestType, Go, At

(* The idle request is good. *)
LEMMA IdleIsGood == GoodRequest(Idle)
  <1>1. /\ 0 \in 0 .. MaxSessions /\ 0 \in 0 .. MaxSerial /\ 0 \in 0 .. MaxLinks
    BY SessionsAssumption
  <1>2. NoUser \in Users
    BY DEF NoUser, Users, Statuses
  <1> QED
    BY <1>1, <1>2 DEF GoodRequest, RequestType, Idle, Steps, Statuses

(* Ending a request keeps RequestOK. *)
LEMMA DoneKeepsRequests ==
    ASSUME RequestOK, NEW p \in Procs, Done(p)
    PROVE  RequestOK'
  BY IdleIsGood, GoKeepsRequests DEF Done

(* Replacing a request by one that resets nothing keeps ResetsPending,     *)
(* provided the consumed links stay consumed. *)
LEMMA GoKeepsResets ==
    ASSUME RequestOK, LinkOK, LinkOK', ResetsPending, history'.resets = history.resets,
           NEW p \in Procs, NEW r, r.at # "reset.update", Go(p, r),
           \A l \in LinkIds :
              /\ link[l].state = "consumed" => link'[l].state = "consumed"
              /\ link'[l].state \in {"absent", "open"} => link[l].state \in {"absent", "open"}
    PROVE  ResetsPending'
  <1>1. \A q \in Procs : req'[q] = IF q = p THEN r ELSE req[q]
    BY DEF RequestOK, Go
  <1>2. ASSUME NEW q \in Procs, At(q, "reset.update")'
        PROVE  q # p /\ At(q, "reset.update") /\ req'[q].l = req[q].l
    BY <1>1, <1>2 DEF At
  <1>3. \A q \in Procs : At(q, "reset.update") => req[q].l \in LinkIds
    BY DEF RequestOK
  <1>4. \A l \in LinkIds : link'[l].state \in {"absent", "open"} => history'.resets[l] = 0
    BY DEF ResetsPending
  <1>5. ASSUME NEW q \in Procs, At(q, "reset.update")'
        PROVE  /\ link'[req'[q].l].state = "consumed"
               /\ history'.resets[req'[q].l] = 0
               /\ \A o \in Procs : o # q /\ At(o, "reset.update")' => req'[o].l # req'[q].l
    BY <1>2, <1>3, <1>5 DEF ResetsPending
  <1> QED
    BY <1>4, <1>5 DEF ResetsPending

(* Setting the status keeps the shape of the account. *)
LEMMA SetStatusKeepsAccount ==
    ASSUME account \in Users, NEW status \in Statuses, SetStatus(status)
    PROVE  account' \in Users
  BY DEF Users, SetStatus

(* A fresh id is one of the store's that is absent. *)
LEMMA OneOfFresh ==
    ASSUME NEW ids, NEW store, Fresh(ids, store) # {}
    PROVE  OneOf(Fresh(ids, store)) \in ids /\ store[OneOf(Fresh(ids, store))].state = "absent"
  BY DEF Fresh, OneOf

(* A new link is well formed, was absent before, and is the only change. *)
LEMMA CreateKeepsLinks ==
    ASSUME LinkOK, now \in 0 .. MaxTime,
           NEW purpose \in {"EMAIL_VERIFICATION", "PASSWORD_RESET"},
           CreateAuthToken(purpose)
    PROVE  /\ LinkOK'
           /\ \A l \in LinkIds :
                /\ link[l].state = "consumed" => link'[l].state = "consumed"
                /\ link'[l].state \in {"absent", "open"} => link[l].state \in {"absent", "open"}
  <1> DEFINE n == OneOf(Fresh(LinkIds, link))
  <1>1. n \in LinkIds /\ link[n].state = "absent"
    BY OneOfFresh DEF CreateAuthToken
  <1>2. now + LinkTtl \in 0 .. MaxTime + LinkTtl
    BY SessionsAssumption
  <1>3. link' = [link EXCEPT ![n] = [state |-> "open", purpose |-> purpose,
                                     createdAt |-> now, expiresAt |-> now + LinkTtl]]
    BY DEF CreateAuthToken
  <1> QED
    BY <1>1, <1>2, <1>3 DEF LinkOK

(* Consuming a link changes that link alone, from open to consumed. *)
LEMMA ConsumeKeepsLinks ==
    ASSUME LinkOK, NEW l \in LinkIds, NEW purpose, ConsumeToken(l, purpose)
    PROVE  /\ LinkOK'
           /\ link[l].state = "open" /\ link'[l].state = "consumed"
           /\ \A m \in LinkIds : m # l => link'[m] = link[m]
  BY DEF LinkOK, ConsumeToken, Consumable

-----------------------------------------------------------------------------
(* What a step that only moves a request along may change: sessions keep   *)
(* their serials, links their consumption, the history its resets. *)
SerialsKept ==
    \A s \in SessionIds :
        /\ session'[s].serial = session[s].serial
        /\ session'[s].state = "absent" <=> session[s].state = "absent"

LinksKept ==
    \A l \in LinkIds :
        /\ link[l].state = "consumed" => link'[l].state = "consumed"
        /\ link'[l].state \in {"absent", "open"} => link[l].state \in {"absent", "open"}

(* Such a step keeps the whole invariant if the new request is good. *)
LEMMA RequestStep ==
    ASSUME IInv, NEW p \in Procs, NEW r, Go(p, r), GoodRequest(r), r.at # "reset.update",
           account' \in Users, SessionOK', LinkOK', HistoryOK',
           SerialsKept, LinksKept,
           history'.spent = history.spent, history'.resets = history.resets,
           now' \in 0 .. MaxTime, started' \in 0 .. MaxRequests
    PROVE  IInv'
  <1>1. RequestOK'
    BY GoKeepsRequests DEF IInv, TypeOK
  <1>2. ResetsPending'
    BY GoKeepsResets DEF IInv, TypeOK, LinksKept
  <1>3. OneSuccessor' /\ SerialsStart'
    BY DEF IInv, OneSuccessor, SerialsStart, SerialsKept
  <1>4. ResetOnce'
    BY DEF IInv, ResetOnce
  <1> QED
    BY <1>1, <1>2, <1>3, <1>4 DEF IInv, TypeOK

(* Starting a request counts it, within the bound. *)
LEMMA StartCounts ==
    ASSUME TypeOK, NEW p \in Procs, NEW r, Start(p, r)
    PROVE  Go(p, r) /\ started' \in 0 .. MaxRequests
  BY SessionsAssumption DEF TypeOK, Start

(* A request that starts and changes at most the account and the links. *)
LEMMA StartStep ==
    ASSUME IInv, NEW p \in Procs, NEW r, Start(p, r), GoodRequest(r), r.at # "reset.update",
           account' \in Users, LinkOK', LinksKept, UNCHANGED <<session, now, history>>
    PROVE  IInv'
  <1>1. Go(p, r) /\ started' \in 0 .. MaxRequests
    BY StartCounts DEF IInv
  <1>2. SessionOK' /\ HistoryOK' /\ now' \in 0 .. MaxTime
    BY DEF IInv, TypeOK, SessionOK, HistoryOK
  <1>3. SerialsKept
    BY DEF SerialsKept
  <1> QED
    BY <1>1, <1>2, <1>3, RequestStep

(* A request that moves on and changes at most the account. *)
LEMMA MoveStep ==
    ASSUME IInv, NEW p \in Procs, NEW r, Go(p, r), GoodRequest(r), r.at # "reset.update",
           account' \in Users, UNCHANGED <<session, link, now, started, history>>
    PROVE  IInv'
  <1>1. SessionOK' /\ LinkOK' /\ HistoryOK' /\ now' \in 0 .. MaxTime /\ started' \in 0 .. MaxRequests
    BY DEF IInv, TypeOK, SessionOK, LinkOK, HistoryOK
  <1>2. SerialsKept /\ LinksKept
    BY DEF SerialsKept, LinksKept
  <1> QED
    BY <1>1, <1>2, RequestStep

(* A request that moves on and closes sessions. *)
LEMMA RevokeStep ==
    ASSUME IInv, NEW p \in Procs, NEW ids, Done(p), Revoke(ids), HistoryOK',
           history'.spent = history.spent, history'.resets = history.resets,
           UNCHANGED <<account, link, now, started>>
    PROVE  IInv'
  <1>1. SessionOK' /\ SerialsKept
    BY DEF IInv, TypeOK, SessionOK, SerialsKept, Revoke, NotRevoked
  <1>2. account' \in Users /\ LinkOK' /\ LinksKept
    BY DEF IInv, TypeOK, LinkOK, LinksKept
  <1>3. now' \in 0 .. MaxTime /\ started' \in 0 .. MaxRequests
    BY DEF IInv, TypeOK
  <1>4. Go(p, Idle) /\ GoodRequest(Idle) /\ Idle.at # "reset.update"
    BY IdleIsGood DEF Done, Idle
  <1> QED
    BY <1>1, <1>2, <1>3, <1>4, RequestStep

(* A request that does nothing but wait for its next step is good. *)
LEMMA StepIsGood ==
    ASSUME NEW step \in Steps \ {"login.create", "refresh.user", "refresh.rotate", "reset.update"}
    PROVE  LET r == [Idle EXCEPT !.at = step]
           IN  GoodRequest(r) /\ r.at # "reset.update"
  <1>1. [Idle EXCEPT !.at = step] \in RequestType
    BY IdleIsGood DEF GoodRequest, RequestType
  <1>2. [Idle EXCEPT !.at = step].at = step
    BY DEF Idle
  <1> QED
    BY <1>1, <1>2 DEF GoodRequest

(* A reset that starts holds a link of its own: it consumed an open one,   *)
(* and no request about to reset held an open link. *)
LEMMA ResetPasswordStep ==
    ASSUME IInv, NEW p \in Procs, NEW l \in LinkIds, NEW w \in Passwords, ResetPassword(p, l, w)
    PROVE  IInv'
  <1> USE DEF IInv
  <1> DEFINE r == [Idle EXCEPT !.at = "reset.update", !.l = l, !.password = w]
  <1>1. r.at = "reset.update" /\ r.l = l
    BY DEF Idle
  <1>2. GoodRequest(r)
    <2>1. l \in 0 .. MaxLinks /\ "reset.update" \in Steps
      BY SessionsAssumption DEF LinkIds, Steps
    <2>2. r \in RequestType
      BY <2>1, IdleIsGood DEF GoodRequest, RequestType
    <2> QED
      BY <2>2, <1>1 DEF GoodRequest
  <1>3. Go(p, r) /\ started' \in 0 .. MaxRequests
    BY StartCounts DEF ResetPassword
  <1>4. RequestOK'
    BY <1>2, <1>3, GoKeepsRequests DEF TypeOK
  <1>5. /\ LinkOK' /\ link[l].state = "open" /\ link'[l].state = "consumed"
        /\ \A m \in LinkIds : m # l => link'[m] = link[m]
    BY ConsumeKeepsLinks DEF ResetPassword, TypeOK
  <1>6. \A q \in Procs : req'[q] = IF q = p THEN r ELSE req[q]
    BY <1>3 DEF TypeOK, RequestOK, Go
  <1>7. history.resets[l] = 0 /\ history' = history
    BY <1>5 DEF ResetsPending, ResetPassword
  <1>8. \A q \in Procs : At(q, "reset.update") => req[q].l \in LinkIds /\ req[q].l # l
    BY <1>5 DEF ResetsPending, TypeOK, RequestOK
  <1>9. ResetsPending'
    <2>1. ASSUME NEW m \in LinkIds, link'[m].state \in {"absent", "open"}
          PROVE  history'.resets[m] = 0
      BY <2>1, <1>5, <1>7 DEF ResetsPending
    <2>2. ASSUME NEW q \in Procs, At(q, "reset.update")'
          PROVE  /\ link'[req'[q].l].state = "consumed"
                 /\ history'.resets[req'[q].l] = 0
                 /\ \A o \in Procs : o # q /\ At(o, "reset.update")' => req'[o].l # req'[q].l
      <3>1. CASE q = p
        <4>1. req'[q].l = l
          BY <3>1, <1>1, <1>6
        <4> QED
          BY <4>1, <3>1, <1>5, <1>6, <1>7, <1>8 DEF At
      <3>2. CASE q # p
        <4>1. req'[q] = req[q] /\ At(q, "reset.update")
          BY <3>2, <2>2, <1>6 DEF At
        <4>2. req'[p].l = l
          BY <1>1, <1>6
        <4> QED
          BY <4>1, <4>2, <3>2, <1>5, <1>6, <1>7, <1>8 DEF At, ResetsPending
      <3> QED
        BY <3>1, <3>2
    <2> QED
      BY <2>1, <2>2 DEF ResetsPending
  <1>10. /\ account' \in Users /\ SessionOK' /\ HistoryOK' /\ now' \in 0 .. MaxTime
         /\ OneSuccessor' /\ SerialsStart' /\ ResetOnce'
    BY DEF ResetPassword, TypeOK, SessionOK, HistoryOK, OneSuccessor, SerialsStart, ResetOnce,
           NotRevoked
  <1> QED
    BY <1>3, <1>4, <1>5, <1>9, <1>10 DEF TypeOK

(* The reset itself counts one reset of a link that had none, which no     *)
(* other request about to reset holds. *)
LEMMA ResetUpdateStep ==
    ASSUME IInv, NEW p \in Procs, ResetUpdate(p)
    PROVE  IInv'
  <1> USE DEF IInv
  <1> DEFINE k == req[p].l
             r == [Idle EXCEPT !.at = "revoke.all", !.l = k]
  <1>1. k \in LinkIds /\ link[k].state = "consumed" /\ history.resets[k] = 0
    BY DEF ResetUpdate, ResetsPending, TypeOK, RequestOK
  <1>2. r.at = "revoke.all"
    BY DEF Idle
  <1>3. GoodRequest(r)
    <2>1. k \in 0 .. MaxLinks /\ "revoke.all" \in Steps
      BY <1>1, SessionsAssumption DEF LinkIds, Steps
    <2>2. r \in RequestType
      BY <2>1, IdleIsGood DEF GoodRequest, RequestType
    <2> QED
      BY <2>2, <1>2 DEF GoodRequest
  <1>4. RequestOK'
    BY <1>3, GoKeepsRequests DEF ResetUpdate, TypeOK
  <1>5. \A q \in Procs : req'[q] = IF q = p THEN r ELSE req[q]
    BY DEF ResetUpdate, TypeOK, RequestOK, Go
  <1>6. account' \in Users
    BY DEF ResetUpdate, TypeOK, RequestOK, Users
  <1>7. /\ history'.spent = history.spent
        /\ \A m \in LinkIds : history'.resets[m] = IF m = k THEN 1 ELSE history.resets[m]
        /\ HistoryOK'
    <2>1. history' = [history EXCEPT !.resets[k] = @ + 1]
      BY DEF ResetUpdate
    <2>2. history' = [history EXCEPT !.resets = [history.resets EXCEPT ![k] = 1]]
      BY <2>1, <1>1
    <2>3. [history.resets EXCEPT ![k] = 1] \in [LinkIds -> Nat]
      BY <1>1 DEF TypeOK, HistoryOK
    <2> QED
      BY <2>2, <2>3, <1>1 DEF TypeOK, HistoryOK
  <1>8. ResetOnce'
    BY <1>7 DEF ResetOnce
  <1>9. ResetsPending'
    <2>1. ASSUME NEW m \in LinkIds, link'[m].state \in {"absent", "open"}
          PROVE  history'.resets[m] = 0
      BY <2>1, <1>1, <1>7 DEF ResetsPending, ResetUpdate
    <2>2. ASSUME NEW q \in Procs, At(q, "reset.update")'
          PROVE  /\ link'[req'[q].l].state = "consumed"
                 /\ history'.resets[req'[q].l] = 0
                 /\ \A o \in Procs : o # q /\ At(o, "reset.update")' => req'[o].l # req'[q].l
      <3>1. q # p /\ req'[q] = req[q] /\ At(q, "reset.update")
        BY <2>2, <1>2, <1>5 DEF At
      <3>2. req[q].l \in LinkIds /\ req[q].l # k
        <4>1. At(p, "reset.update")
          BY DEF ResetUpdate
        <4>2. req[q].l \in LinkIds
          BY <3>1 DEF TypeOK, RequestOK
        <4> QED
          BY <4>1, <4>2, <3>1 DEF ResetsPending
      <3>3. \A o \in Procs : o # q /\ At(o, "reset.update")' => req'[o].l # req'[q].l
        <4>1. ASSUME NEW o \in Procs, o # q, At(o, "reset.update")'
              PROVE  o # p /\ At(o, "reset.update") /\ req'[o].l = req[o].l
          BY <4>1, <1>2, <1>5 DEF At
        <4> QED
          BY <4>1, <3>1 DEF ResetsPending
      <3> QED
        BY <3>1, <3>2, <3>3, <1>7 DEF ResetsPending, ResetUpdate
    <2> QED
      BY <2>1, <2>2 DEF ResetsPending
  <1>10. /\ SessionOK' /\ LinkOK' /\ now' \in 0 .. MaxTime /\ started' \in 0 .. MaxRequests
         /\ OneSuccessor' /\ SerialsStart'
    BY <1>7 DEF ResetUpdate, TypeOK, SessionOK, LinkOK, OneSuccessor, SerialsStart
  <1> QED
    BY <1>4, <1>6, <1>7, <1>8, <1>9, <1>10 DEF TypeOK

-----------------------------------------------------------------------------
(* The requests that register, verify and reset. *)
LEMMA LinkRequestStep ==
    ASSUME IInv, NEW p \in Procs, LinkRequest(p)
    PROVE  IInv'
  <1> USE DEF IInv
  <1> DEFINE Deleting == [Idle EXCEPT !.at = "issue.delete"]
             Creating == [Idle EXCEPT !.at = "issue.create"]
             Activating == [Idle EXCEPT !.at = "activate"]
  <1>1. /\ GoodRequest(Deleting) /\ Deleting.at # "reset.update"
        /\ GoodRequest(Creating) /\ Creating.at # "reset.update"
        /\ GoodRequest(Activating) /\ Activating.at # "reset.update"
        /\ GoodRequest(Idle) /\ Idle.at # "reset.update"
    <2>1. /\ "issue.delete" \in Steps \ {"login.create", "refresh.user", "refresh.rotate", "reset.update"}
          /\ "issue.create" \in Steps \ {"login.create", "refresh.user", "refresh.rotate", "reset.update"}
          /\ "activate" \in Steps \ {"login.create", "refresh.user", "refresh.rotate", "reset.update"}
      BY DEF Steps
    <2> QED
      BY <2>1, StepIsGood, IdleIsGood DEF Idle
  <1> HIDE DEF Deleting, Creating, Activating
  <1>2. ASSUME UNCHANGED link PROVE LinkOK' /\ LinksKept
    BY <1>2 DEF TypeOK, LinkOK, LinksKept
  <1>3. CASE \E w \in Passwords : Register(p, w)
    <2>1. PICK w \in Passwords : Register(p, w)
      BY <1>3
    <2>2. account' \in Users
      BY <2>1 DEF Register, Users, Statuses
    <2> QED
      BY <2>1, <2>2, <1>1, <1>2, StartStep DEF Register, Deleting
  <1>4. CASE ResendVerification(p)
    BY <1>4, <1>1, <1>2, StartStep DEF ResendVerification, Deleting, TypeOK
  <1>5. CASE IssueDelete(p)
    <2>1. LinkOK' /\ LinksKept
      BY <1>5 DEF IssueDelete, TypeOK, LinkOK, LinksKept
    <2>2. account' \in Users /\ SessionOK' /\ HistoryOK' /\ SerialsKept
      BY <1>5 DEF IssueDelete, TypeOK, SessionOK, HistoryOK, SerialsKept
    <2>3. now' \in 0 .. MaxTime /\ started' \in 0 .. MaxRequests
      BY <1>5 DEF IssueDelete, TypeOK
    <2>4. Go(p, Creating) /\ history' = history
      BY <1>5 DEF IssueDelete, Creating
    <2> QED
      BY <2>1, <2>2, <2>3, <2>4, <1>1, RequestStep
  <1>6. CASE IssueCreate(p)
    <2>1. LinkOK' /\ LinksKept
      BY <1>6, CreateKeepsLinks DEF IssueCreate, TypeOK, LinksKept
    <2>2. account' \in Users /\ SessionOK' /\ HistoryOK' /\ SerialsKept
      BY <1>6 DEF IssueCreate, TypeOK, SessionOK, HistoryOK, SerialsKept
    <2>3. now' \in 0 .. MaxTime /\ started' \in 0 .. MaxRequests
      BY <1>6 DEF IssueCreate, TypeOK
    <2>4. Go(p, Idle) /\ history' = history
      BY <1>6 DEF IssueCreate, Done
    <2> QED
      BY <2>1, <2>2, <2>3, <2>4, <1>1, RequestStep
  <1>7. CASE \E l \in LinkIds : VerifyEmail(p, l)
    <2>1. PICK l \in LinkIds : VerifyEmail(p, l)
      BY <1>7
    <2>2. LinkOK' /\ LinksKept
      BY <2>1, ConsumeKeepsLinks DEF VerifyEmail, TypeOK, LinksKept
    <2> QED
      BY <2>1, <2>2, <1>1, StartStep DEF VerifyEmail, Activating, TypeOK
  <1>8. CASE Activate(p)
    <2>1. account' \in Users
      BY <1>8, SetStatusKeepsAccount DEF Activate, TypeOK, Statuses
    <2> QED
      BY <1>8, <2>1, <1>1, MoveStep DEF Activate, Done
  <1>9. CASE ForgotPassword(p)
    <2>1. LinkOK' /\ LinksKept
      BY <1>9, CreateKeepsLinks DEF ForgotPassword, TypeOK, LinksKept
    <2> QED
      BY <1>9, <2>1, <1>1, StartStep DEF ForgotPassword, TypeOK
  <1>10. CASE \E l \in LinkIds, w \in Passwords : ResetPassword(p, l, w)
    BY <1>10, ResetPasswordStep
  <1>11. CASE ResetUpdate(p)
    BY <1>11, ResetUpdateStep
  <1> QED
    BY <1>3, <1>4, <1>5, <1>6, <1>7, <1>8, <1>9, <1>10, <1>11 DEF LinkRequest

-----------------------------------------------------------------------------
(* An authenticated request whose handler holds a good request keeps the   *)
(* invariant. *)
LEMMA AuthenticatedStep ==
    ASSUME IInv, NEW p \in Procs, NEW s, NEW r, Authenticated(p, s, r),
           GoodRequest(r), r.at # "reset.update"
    PROVE  IInv'
  <1>1. account' \in Users /\ LinkOK' /\ LinksKept
    BY DEF Authenticated, IInv, TypeOK, LinkOK, LinksKept
  <1> QED
    BY <1>1, StartStep DEF Authenticated

(* A new session takes a fresh id, whose serial was zero: nothing was      *)
(* exchanged for it yet. *)
LEMMA CreateSessionStep ==
    ASSUME IInv, NEW p \in Procs, CreateSession(p)
    PROVE  IInv'
  <1> USE DEF IInv
  <1> DEFINE n == OneOf(Fresh(SessionIds, session))
             stored == [req[p].context EXCEPT !.ip = Hashed(@[2])]
  <1>1. n \in SessionIds /\ session[n].state = "absent" /\ session[n].serial = 0
    BY OneOfFresh DEF CreateSession, SerialsStart
  <1>2. stored \in Stored
    <2>1. req[p].context \in Contexts
      BY DEF CreateSession, TypeOK, RequestOK
    <2>2. PICK a \in Addresses : req[p].context.ip = <<"plain", a>>
      BY <2>1 DEF Contexts, Plain
    <2>3. stored = [req[p].context EXCEPT !.ip = <<"keyed hash", a>>]
      BY <2>2 DEF Hashed
    <2>4. <<"keyed hash", a>> \in {"keyed hash"} \X Addresses
      OBVIOUS
    <2> QED
      BY <2>1, <2>3, <2>4 DEF Contexts, Stored
  <1>3. session' = [session EXCEPT ![n] =
                      [state |-> "live", serial |-> 1, lastUsedAt |-> now,
                       expiresAt |-> now + SessionTtl, context |-> stored]]
    BY DEF CreateSession
  <1> HIDE DEF n, stored
  <1>4. SessionOK'
    <2>1. now + SessionTtl \in 0 .. MaxTime + SessionTtl /\ 1 \in 0 .. MaxSerial
      BY SessionsAssumption DEF TypeOK
    <2> QED
      BY <1>1, <1>2, <1>3, <2>1 DEF TypeOK, SessionOK
  <1>5. /\ \A s \in SessionIds : s # n => session'[s] = session[s]
        /\ session'[n].state = "live" /\ session'[n].serial = 1
    BY <1>1, <1>3 DEF TypeOK, SessionOK
  <1>6. HistoryOK' /\ history'.spent = history.spent /\ history'.resets = history.resets
    <2>1. req[p].user \in Users
      BY DEF TypeOK, RequestOK
    <2>2. history' = [history EXCEPT !.password[n] = req[p].user.password,
                                     !.late[n] = req[p].user # account]
      BY DEF CreateSession, n
    <2> QED
      BY <2>1, <2>2, <1>1 DEF TypeOK, HistoryOK, Users
  <1>7. OneSuccessor' /\ SerialsStart'
    <2>1. history.spent[n] = {} /\ 1 .. (1 - 1) = {}
      BY <1>1 DEF OneSuccessor
    <2>2. ASSUME NEW s \in SessionIds
          PROVE  history'.spent[s] = 1 .. (session'[s].serial - 1)
      <3>1. CASE s = n
        BY <3>1, <2>1, <1>5, <1>6
      <3>2. CASE s # n
        BY <3>2, <1>5, <1>6 DEF OneSuccessor
      <3> QED
        BY <3>1, <3>2
    <2>3. SerialsStart'
      BY <1>5 DEF SerialsStart
    <2> QED
      BY <2>2, <2>3 DEF OneSuccessor
  <1>8. LinkOK' /\ LinksKept
    BY DEF CreateSession, TypeOK, LinkOK, LinksKept
  <1>9. RequestOK'
    BY DoneKeepsRequests DEF CreateSession, TypeOK
  <1>10. ResetsPending'
    BY <1>6, <1>8, GoKeepsResets DEF CreateSession, Done, Idle, TypeOK, LinksKept
  <1>11. /\ account' \in Users /\ now' \in 0 .. MaxTime /\ started' \in 0 .. MaxRequests
         /\ ResetOnce'
    BY <1>6 DEF CreateSession, TypeOK, ResetOnce
  <1> QED
    BY <1>4, <1>6, <1>7, <1>8, <1>9, <1>10, <1>11 DEF TypeOK

(* A rotation spends the current serial and issues the next. *)
LEMMA RefreshRotateStep ==
    ASSUME IInv, NEW p \in Procs, RefreshRotate(p)
    PROVE  IInv'
  <1> USE DEF IInv
  <1> DEFINE s == req[p].s
  <1>1. s \in SessionIds
    BY DEF RefreshRotate, At, TypeOK, RequestOK
  <1>2. GoodRequest(Idle) /\ Idle.at # "reset.update" /\ Go(p, Idle)
    BY IdleIsGood DEF Idle, RefreshRotate, Done
  <1>3. CASE ~StillRotatable(req[p])
    BY <1>2, <1>3, MoveStep DEF RefreshRotate, TypeOK
  <1>4. CASE StillRotatable(req[p])
    <2>1. /\ session[s].state = "live" /\ session[s].serial = req[p].serial
          /\ session[s].serial < MaxSerial
          /\ session' = [session EXCEPT ![s].serial = @ + 1, ![s].lastUsedAt = now,
                                        ![s].expiresAt = now + SessionTtl]
          /\ history' = [history EXCEPT !.spent[s] = @ \cup {req[p].serial}]
      BY <1>4 DEF RefreshRotate, StillRotatable, NotRevoked
    <2> DEFINE k == session[s].serial
    <2>2. k \in Nat /\ k >= 1 /\ k + 1 \in 0 .. MaxSerial
      BY SMTT(60), <1>1, <2>1, SessionsAssumption DEF TypeOK, SessionOK, SerialsStart
    <2>3. SessionOK'
      <3>1. now + SessionTtl \in 0 .. MaxTime + SessionTtl
        BY SessionsAssumption DEF TypeOK
      <3> QED
        BY <1>1, <2>1, <2>2, <3>1, SMTT(60) DEF TypeOK, SessionOK
    <2>4. /\ \A t \in SessionIds : t # s => session'[t] = session[t]
          /\ session'[s].serial = k + 1 /\ session'[s].state = "live"
      BY <1>1, <2>1 DEF TypeOK, SessionOK
    <2>5. HistoryOK' /\ history'.resets = history.resets
      <3>1. history.spent[s] \cup {req[p].serial} \in SUBSET Nat
        <4>1. history.spent \in [SessionIds -> SUBSET Nat]
          BY DEF TypeOK, HistoryOK
        <4>2. req[p].serial \in Nat
          BY <2>1, <2>2
        <4> HIDE DEF s
        <4> QED
          BY <1>1, <4>1, <4>2
      <3>2. [history.spent EXCEPT ![s] = @ \cup {req[p].serial}] \in [SessionIds -> SUBSET Nat]
        BY <1>1, <3>1 DEF TypeOK, HistoryOK
      <3>3. history' = [history EXCEPT !.spent =
                          [history.spent EXCEPT ![s] = @ \cup {req[p].serial}]]
        BY <2>1
      <3> QED
        BY <3>2, <3>3 DEF TypeOK, HistoryOK
    <2>6. /\ \A t \in SessionIds : t # s => history'.spent[t] = history.spent[t]
          /\ history'.spent[s] = history.spent[s] \cup {k}
      BY <1>1, <2>1 DEF TypeOK, HistoryOK
    <2>7. OneSuccessor' /\ SerialsStart'
      <3>1. (1 .. (k - 1)) \cup {k} = 1 .. ((k + 1) - 1)
        BY <2>2
      <3>2. history'.spent[s] = 1 .. (session'[s].serial - 1)
        BY <1>1, <2>4, <2>6, <3>1 DEF OneSuccessor
      <3>3. ASSUME NEW t \in SessionIds
            PROVE  history'.spent[t] = 1 .. (session'[t].serial - 1)
        <4>1. CASE t = s
          BY <4>1, <3>2
        <4>2. CASE t # s
          BY <4>2, <2>4, <2>6 DEF OneSuccessor
        <4> QED
          BY <4>1, <4>2
      <3>4. SerialsStart'
        BY <1>1, <2>2, <2>4 DEF SerialsStart
      <3> QED
        BY <3>3, <3>4 DEF OneSuccessor
    <2>8. LinkOK' /\ LinksKept
      BY DEF RefreshRotate, TypeOK, LinkOK, LinksKept
    <2>9. RequestOK'
      BY DoneKeepsRequests DEF RefreshRotate, TypeOK
    <2>10. ResetsPending'
      BY <1>2, <2>5, <2>8, GoKeepsResets DEF TypeOK, LinksKept
    <2>11. /\ account' \in Users /\ now' \in 0 .. MaxTime /\ started' \in 0 .. MaxRequests
           /\ ResetOnce'
      BY <2>5 DEF RefreshRotate, TypeOK, ResetOnce
    <2> QED
      BY <2>3, <2>5, <2>7, <2>8, <2>9, <2>10, <2>11 DEF TypeOK
  <1> QED
    BY <1>3, <1>4

-----------------------------------------------------------------------------
(* The requests that sign in, rotate and sign out. *)
LEMMA SessionRequestStep ==
    ASSUME IInv, NEW p \in Procs, SessionRequest(p)
    PROVE  IInv'
  <1> USE DEF IInv
  <1>1. GoodRequest(Idle) /\ Idle.at # "reset.update"
    BY IdleIsGood DEF Idle
  <1>2. Idle \in RequestType
    BY <1>1 DEF GoodRequest
  <1>3. CASE \E w \in Passwords, c \in Contexts : Login(p, w, c)
    <2>1. PICK w \in Passwords, c \in Contexts : Login(p, w, c)
      BY <1>3
    <2> DEFINE r == [Idle EXCEPT !.at = "login.create", !.user = account, !.context = c]
    <2>2. r \in RequestType
      BY <1>2 DEF RequestType, Steps, TypeOK
    <2>3. r.at = "login.create" /\ r.context = c
      BY DEF Idle
    <2>4. account' \in Users /\ LinkOK' /\ LinksKept
      BY <2>1 DEF Login, TypeOK, LinkOK, LinksKept
    <2> QED
      BY <2>1, <2>2, <2>3, <2>4, StartStep DEF Login, GoodRequest
  <1>4. CASE CreateSession(p)
    BY <1>4, CreateSessionStep
  <1>5. CASE \E s \in SessionIds, n \in 1 .. MaxSerial, c \in Contexts : RefreshFind(p, s, n, c)
    <2>1. PICK s \in SessionIds, n \in 1 .. MaxSerial, c \in Contexts : RefreshFind(p, s, n, c)
      BY <1>5
    <2>2. account' \in Users /\ LinkOK' /\ LinksKept
      BY <2>1 DEF RefreshFind, TypeOK, LinkOK, LinksKept
    <2>3. s \in 0 .. MaxSessions /\ n \in 0 .. MaxSerial
      BY SessionsAssumption DEF SessionIds
    <2>4. CASE Start(p, [Idle EXCEPT !.at = "refresh.user", !.s = s, !.serial = n])
      <3> DEFINE r == [Idle EXCEPT !.at = "refresh.user", !.s = s, !.serial = n]
      <3>1. r \in RequestType /\ r.at = "refresh.user" /\ r.s = s
        BY <1>2, <2>3 DEF RequestType, Steps, Idle
      <3> QED
        BY <2>1, <2>2, <2>4, <3>1, StartStep DEF RefreshFind, GoodRequest
    <2>5. CASE Start(p, [Idle EXCEPT !.at = "refresh.reuse", !.s = s])
      <3> DEFINE r == [Idle EXCEPT !.at = "refresh.reuse", !.s = s]
      <3>1. r \in RequestType /\ r.at = "refresh.reuse"
        BY <1>2, <2>3 DEF RequestType, Steps, Idle
      <3> QED
        BY <2>1, <2>2, <2>5, <3>1, StartStep DEF RefreshFind, GoodRequest
    <2> QED
      BY <2>1, <2>4, <2>5 DEF RefreshFind
  <1>6. CASE RefreshUser(p)
    <2>1. CASE Go(p, [req[p] EXCEPT !.at = "refresh.rotate"])
      <3> DEFINE r == [req[p] EXCEPT !.at = "refresh.rotate"]
      <3>1. req[p] \in RequestType /\ req[p].s \in SessionIds
        BY <1>6 DEF RefreshUser, At, TypeOK, RequestOK, RequestType
      <3>2. r \in RequestType /\ r.at = "refresh.rotate" /\ r.s = req[p].s
        BY <3>1 DEF RequestType, Steps
      <3> QED
        BY <1>6, <2>1, <3>1, <3>2, MoveStep DEF RefreshUser, GoodRequest, TypeOK
    <2>2. CASE Done(p)
      BY <1>6, <2>2, <1>1, MoveStep DEF RefreshUser, Done, TypeOK
    <2> QED
      BY <1>6, <2>1, <2>2 DEF RefreshUser
  <1>7. CASE RefreshRotate(p)
    BY <1>7, RefreshRotateStep
  <1>8. CASE RefreshReuse(p) \/ RevokeOne(p)
    <2>1. HistoryOK'
      BY <1>8 DEF RefreshReuse, RevokeOne, TypeOK, HistoryOK
    <2> QED
      BY <1>8, <2>1, RevokeStep DEF RefreshReuse, RevokeOne
  <1>9. CASE \E s, t \in SessionIds : AskRevoke(p, s, t)
    <2>1. PICK s \in SessionIds, t \in SessionIds : AskRevoke(p, s, t)
      BY <1>9
    <2> DEFINE r == [Idle EXCEPT !.at = "revoke.one", !.s = t]
    <2>2. t \in 0 .. MaxSessions
      BY SessionsAssumption DEF SessionIds
    <2>3. r \in RequestType /\ r.at = "revoke.one"
      BY <1>2, <2>2 DEF RequestType, Steps, Idle
    <2> QED
      BY <2>1, <2>3, AuthenticatedStep DEF AskRevoke, GoodRequest
  <1>10. CASE \E s \in SessionIds : AskLogoutAll(p, s)
    <2>1. "revoke.all" \in Steps \ {"login.create", "refresh.user", "refresh.rotate", "reset.update"}
      BY DEF Steps
    <2> QED
      BY <1>10, <2>1, StepIsGood, AuthenticatedStep DEF AskLogoutAll
  <1>11. CASE LogoutAll(p)
    <2>1. HistoryOK' /\ history'.spent = history.spent /\ history'.resets = history.resets
      BY <1>11 DEF LogoutAll, TypeOK, HistoryOK
    <2> QED
      BY <1>11, <2>1, RevokeStep DEF LogoutAll
  <1> QED
    BY <1>3, <1>4, <1>5, <1>6, <1>7, <1>8, <1>9, <1>10, <1>11 DEF SessionRequest

(* The requests that change the password or the status of the account. *)
LEMMA AccountRequestStep ==
    ASSUME IInv, NEW p \in Procs, AccountRequest(p)
    PROVE  IInv'
  <1> USE DEF IInv
  <1>1. GoodRequest(Idle) /\ Idle.at # "reset.update"
    BY IdleIsGood DEF Idle
  <1>2. Idle \in RequestType /\ req[p] \in RequestType
    BY <1>1 DEF GoodRequest, TypeOK, RequestOK, RequestType
  <1>3. /\ {"revoke.all", "deletion.request", "deletion.cancel", "idle"} \subseteq
             Steps \ {"login.create", "refresh.user", "refresh.rotate", "reset.update"}
    BY DEF Steps
  <1>4. CASE \E s \in SessionIds, w \in Passwords : AskChange(p, s, w)
    <2>1. PICK s \in SessionIds, w \in Passwords : AskChange(p, s, w)
      BY <1>4
    <2> DEFINE r == [Idle EXCEPT !.at = "change.check", !.password = w]
    <2>2. r \in RequestType /\ r.at = "change.check"
      BY <1>2 DEF RequestType, Steps, Idle
    <2> QED
      BY <2>1, <2>2, AuthenticatedStep DEF AskChange, GoodRequest
  <1>5. CASE ChangeCheck(p)
    <2> DEFINE r == [req[p] EXCEPT !.at = "change.update"]
    <2>1. r \in RequestType /\ r.at = "change.update"
      BY <1>2 DEF RequestType, Steps
    <2> QED
      BY <1>5, <2>1, MoveStep DEF ChangeCheck, GoodRequest, TypeOK
  <1>6. CASE ChangeUpdate(p)
    <2>1. account' \in Users
      BY <1>6, <1>2 DEF ChangeUpdate, TypeOK, Users, RequestType
    <2> QED
      BY <1>6, <2>1, <1>3, StepIsGood, MoveStep DEF ChangeUpdate
  <1>7. CASE \E s \in SessionIds : AskDeletion(p, s) \/ AskCancel(p, s)
    BY <1>7, <1>3, StepIsGood, AuthenticatedStep DEF AskDeletion, AskCancel
  <1>8. CASE RequestDeletion(p) \/ CancelDeletion(p)
    <2>1. account' \in Users
      BY <1>8, SetStatusKeepsAccount
         DEF RequestDeletion, CancelDeletion, ChangeDeletion, TypeOK, Statuses
    <2> QED
      BY <1>8, <2>1, <1>1, MoveStep DEF RequestDeletion, CancelDeletion, ChangeDeletion, Done
  <1>9. CASE \E status \in {"ACTIVE", "SUSPENDED"} : AdminLoad(p, status)
    <2>1. PICK status \in {"ACTIVE", "SUSPENDED"} : AdminLoad(p, status)
      BY <1>9
    <2> DEFINE r == [Idle EXCEPT !.at = "admin.save", !.user = account, !.status = status]
    <2>2. r \in RequestType
      BY <1>2 DEF RequestType, Steps, Statuses, TypeOK
    <2>3. r.at = "admin.save"
      BY DEF Idle
    <2>4. account' \in Users /\ LinkOK' /\ LinksKept
      BY <2>1 DEF AdminLoad, TypeOK, LinkOK, LinksKept
    <2> QED
      BY <2>1, <2>2, <2>3, <2>4, StartStep DEF AdminLoad, GoodRequest
  <1>10. CASE AdminSave(p)
    <2>1. req[p].status \in Statuses
      BY <1>2 DEF RequestType
    <2>2. account' \in Users
      BY <1>10, <2>1, SetStatusKeepsAccount DEF AdminSave, TypeOK
    <2>3. AfterStatus(req[p].status) \in {"revoke.all", "idle"}
      BY DEF AfterStatus
    <2>4. Go(p, [Idle EXCEPT !.at = AfterStatus(req[p].status)])
      BY <1>10 DEF AdminSave
    <2>5. UNCHANGED <<session, link, now, started, history>>
      BY <1>10 DEF AdminSave
    <2> QED
      BY <2>2, <2>3, <2>4, <2>5, <1>3, StepIsGood, MoveStep
  <1> QED
    BY <1>4, <1>5, <1>6, <1>7, <1>8, <1>9, <1>10 DEF AccountRequest

(* A request that ends early changes only what the history records. *)
LEMMA AbandonStep ==
    ASSUME IInv, NEW p \in Procs, Abandon(p)
    PROVE  IInv'
  <1> USE DEF IInv
  <1>1. GoodRequest(Idle) /\ Idle.at # "reset.update" /\ Go(p, Idle)
    BY IdleIsGood DEF Idle, Abandon, Done
  <1>2. HistoryOK' /\ history'.spent = history.spent /\ history'.resets = history.resets
    BY DEF Abandon, At, TypeOK, HistoryOK
  <1>3. account' \in Users /\ SessionOK' /\ LinkOK' /\ SerialsKept /\ LinksKept
    BY DEF Abandon, TypeOK, SessionOK, LinkOK, SerialsKept, LinksKept
  <1>4. now' \in 0 .. MaxTime /\ started' \in 0 .. MaxRequests
    BY DEF Abandon, TypeOK
  <1> QED
    BY <1>1, <1>2, <1>3, <1>4, RequestStep

(* Neither the clock nor the removal of expired sessions disturbs it. *)
LEMMA EnvironmentStep ==
    ASSUME IInv, (\E s \in SessionIds : ExpireSession(s)) \/ Tick
    PROVE  IInv'
  <1> USE DEF IInv
  <1>1. CASE \E s \in SessionIds : ExpireSession(s)
    <2>1. PICK s \in SessionIds : ExpireSession(s)
      BY <1>1
    <2>2. SessionOK' /\ SerialsKept
      BY <2>1 DEF ExpireSession, TypeOK, SessionOK, SerialsKept
    <2>3. OneSuccessor' /\ SerialsStart'
      BY <2>1, <2>2 DEF ExpireSession, OneSuccessor, SerialsStart, SerialsKept
    <2>4. RequestOK' /\ LinkOK' /\ HistoryOK'
      BY <2>1 DEF ExpireSession, TypeOK, RequestOK, LinkOK, HistoryOK, At
    <2>5. ResetsPending' /\ ResetOnce'
      BY <2>1 DEF ExpireSession, ResetsPending, ResetOnce, At
    <2>6. account' \in Users /\ now' \in 0 .. MaxTime /\ started' \in 0 .. MaxRequests
      BY <2>1 DEF ExpireSession, TypeOK
    <2> QED
      BY <2>2, <2>3, <2>4, <2>5, <2>6 DEF TypeOK
  <1>2. CASE Tick
    <2>1. now' \in 0 .. MaxTime
      BY <1>2, SessionsAssumption DEF Tick, TypeOK
    <2>2. RequestOK' /\ LinkOK' /\ HistoryOK' /\ SessionOK'
      BY <1>2 DEF Tick, TypeOK, RequestOK, LinkOK, HistoryOK, SessionOK, At
    <2>3. ResetsPending' /\ ResetOnce' /\ OneSuccessor' /\ SerialsStart'
      BY <1>2 DEF Tick, ResetsPending, ResetOnce, OneSuccessor, SerialsStart, At
    <2> QED
      BY <1>2, <2>1, <2>2, <2>3 DEF Tick, TypeOK
  <1> QED
    BY <1>1, <1>2

(* A stuttering step keeps the invariant. *)
LEMMA StutterStep ==
    ASSUME IInv, UNCHANGED vars
    PROVE  IInv'
  <1> USE DEF vars
  <1>1. TypeOK'
    BY DEF IInv, TypeOK, RequestOK, LinkOK, HistoryOK, SessionOK, At
  <1>2. ResetsPending' /\ ResetOnce' /\ OneSuccessor' /\ SerialsStart'
    BY DEF IInv, ResetsPending, ResetOnce, OneSuccessor, SerialsStart, At
  <1> QED
    BY <1>1, <1>2 DEF IInv

(* The invariant holds at the start. *)
LEMMA InitIsGood == Init => IInv
  <1> SUFFICES ASSUME Init PROVE IInv
    OBVIOUS
  <1>1. account \in Users
    <2>1. NoUser \in Users
      BY DEF NoUser, Users, Statuses
    <2>2. [status : {"ACTIVE"}, password : Passwords] \subseteq Users
      BY DEF Users, Statuses
    <2> QED
      BY <2>1, <2>2 DEF Init
  <1>2. /\ 0 \in 0 .. MaxSerial /\ 0 \in 0 .. MaxTime /\ 0 \in 0 .. MaxRequests
        /\ 0 \in 0 .. MaxTime + SessionTtl /\ 0 \in 0 .. MaxTime + LinkTtl
    BY SessionsAssumption
  <1>3. SessionOK /\ LinkOK
    BY <1>2 DEF Init, SessionOK, LinkOK, NoSession, NoLink
  <1>4. RequestOK
    BY IdleIsGood DEF Init, RequestOK, GoodRequest, RequestType, At
  <1>5. HistoryOK /\ now \in 0 .. MaxTime /\ started \in 0 .. MaxRequests
    BY <1>2 DEF Init, HistoryOK
  <1>6. OneSuccessor
    <2>1. 1 .. (0 - 1) = {}
      OBVIOUS
    <2> QED
      BY <2>1 DEF Init, OneSuccessor, NoSession
  <1>7. SerialsStart /\ ResetOnce
    <2>1. \A s \in SessionIds : session[s] = NoSession
      BY DEF Init
    <2>2. history.resets = [l \in LinkIds |-> 0]
      BY DEF Init
    <2> QED
      BY <2>1, <2>2 DEF SerialsStart, ResetOnce, NoSession
  <1>8. ResetsPending
    BY DEF Init, ResetsPending, At, Idle
  <1> QED
    BY <1>1, <1>3, <1>4, <1>5, <1>6, <1>7, <1>8 DEF IInv, TypeOK

(* Every step keeps the invariant. *)
LEMMA NextIsGood == IInv /\ [Next]_vars => IInv'
  <1> SUFFICES ASSUME IInv, [Next]_vars PROVE IInv'
    OBVIOUS
  <1>1. ASSUME NEW p \in Procs,
               LinkRequest(p) \/ SessionRequest(p) \/ AccountRequest(p) \/ Abandon(p)
        PROVE  IInv'
    BY <1>1, LinkRequestStep, SessionRequestStep, AccountRequestStep, AbandonStep
  <1>2. CASE (\E s \in SessionIds : ExpireSession(s)) \/ Tick
    BY <1>2, EnvironmentStep
  <1>3. CASE UNCHANGED vars
    BY <1>3, StutterStep
  <1> QED
    BY <1>1, <1>2, <1>3 DEF Next

-----------------------------------------------------------------------------
(* The inductive invariant holds for every number of requests, sessions    *)
(* and links. *)
THEOREM Invariant == Spec => []IInv
  BY InitIsGood, NextIsGood, PTL DEF Spec

(* Users, sessions, links and requests in flight keep their shape, and no  *)
(* session stores a plain address. *)
THEOREM TypeCorrect == Spec => []TypeOK
  <1>1. IInv => TypeOK
    BY DEF IInv
  <1> QED
    BY <1>1, Invariant, PTL

(* However refreshes overlap, the tokens exchanged for a session are       *)
(* exactly the ones before its current token (auth.service.ts refresh). *)
THEOREM RotationIsLinear == Spec => []OneSuccessor
  <1>1. IInv => OneSuccessor
    BY DEF IInv
  <1> QED
    BY <1>1, Invariant, PTL

(* A reset link changes the password at most once (consumeToken and        *)
(* resetPassword). *)
THEOREM ResetLinkIsSpentOnce == Spec => []ResetOnce
  <1>1. IInv => ResetOnce
    BY DEF IInv
  <1> QED
    BY <1>1, Invariant, PTL

-----------------------------------------------------------------------------
(* No step reopens a closed session or moves its serial: a new session     *)
(* takes an absent id, and a rotation finds its session live. *)
LEMMA ClosedStaysClosed ==
    ASSUME IInv, Next,
           NEW s \in SessionIds, session[s].state \in {"revoked", "deleted"}
    PROVE  /\ session'[s].state \in {"revoked", "deleted"}
           /\ session'[s].serial = session[s].serial
  <1> USE DEF IInv
  <1>1. CASE UNCHANGED session
    BY <1>1
  <1>3. ASSUME NEW p \in Procs, CreateSession(p)
        PROVE  session'[s] = session[s]
    <2>1. PICK n \in SessionIds : /\ session[n].state = "absent"
                                  /\ \A t \in SessionIds : t # n => session'[t] = session[t]
      <3> DEFINE n == OneOf(Fresh(SessionIds, session))
      <3>1. n \in SessionIds /\ session[n].state = "absent"
        BY <1>3, OneOfFresh DEF CreateSession
      <3>2. \A t \in SessionIds : t # n => session'[t] = session[t]
        BY <1>3 DEF CreateSession, TypeOK, SessionOK
      <3> HIDE DEF n
      <3> QED
        BY <3>1, <3>2
    <2> QED
      BY <2>1
  <1>4. ASSUME NEW p \in Procs, RefreshRotate(p)
        PROVE  session'[s] = session[s]
    <2>1. CASE StillRotatable(req[p])
      <3>1. session[req[p].s].state = "live"
        BY <2>1 DEF StillRotatable, NotRevoked
      <3> QED
        BY <1>4, <2>1, <3>1 DEF RefreshRotate, TypeOK, SessionOK
    <2>2. CASE ~StillRotatable(req[p])
      BY <1>4, <2>2 DEF RefreshRotate
    <2> QED
      BY <2>1, <2>2
  <1>5. ASSUME NEW t \in SessionIds, ExpireSession(t)
        PROVE  /\ session'[s].state \in {"revoked", "deleted"}
               /\ session'[s].serial = session[s].serial
    BY <1>5 DEF ExpireSession, TypeOK, SessionOK
  <1>6. ASSUME NEW p \in Procs, LinkRequest(p) \/ AccountRequest(p) \/ Abandon(p)
        PROVE  UNCHANGED session
    BY <1>6 DEF LinkRequest, AccountRequest, Abandon, Register, ResendVerification, IssueDelete,
                IssueCreate, VerifyEmail, Activate, ForgotPassword, ResetPassword, ResetUpdate,
                AskChange, AskDeletion, AskCancel, Authenticated, ChangeCheck, ChangeUpdate,
                RequestDeletion, CancelDeletion, ChangeDeletion, AdminLoad, AdminSave
  <1>7. ASSUME NEW p \in Procs, SessionRequest(p)
        PROVE  /\ session'[s].state \in {"revoked", "deleted"}
               /\ session'[s].serial = session[s].serial
    <2>1. CASE RefreshReuse(p) \/ RevokeOne(p) \/ LogoutAll(p)
      BY SMTT(60), <2>1 DEF RefreshReuse, RevokeOne, LogoutAll, Revoke, NotRevoked
    <2>2. CASE \/ \E w \in Passwords, c \in Contexts : Login(p, w, c)
               \/ \E t \in SessionIds, n \in 1 .. MaxSerial, c \in Contexts : RefreshFind(p, t, n, c)
               \/ RefreshUser(p)
               \/ \E t, o \in SessionIds : AskRevoke(p, t, o)
               \/ \E t \in SessionIds : AskLogoutAll(p, t)
      BY <2>2, <1>1 DEF Login, RefreshFind, RefreshUser, AskRevoke, AskLogoutAll, Authenticated
    <2> QED
      BY <1>3, <1>4, <1>7, <2>1, <2>2 DEF SessionRequest
  <1>8. CASE Tick
    BY <1>8, <1>1 DEF Tick
  <1> QED
    BY <1>1, <1>5, <1>6, <1>7, <1>8 DEF Next

(* A session once revoked, by whatever request, stays revoked and issues   *)
(* no further token (auth.service.ts, the filter of the rotating update). *)
THEOREM RevocationIsFinal == Spec => RevokedIsFinal
  <1>1. IInv /\ [Next]_vars =>
          [\A s \in SessionIds : session[s].state \in {"revoked", "deleted"} =>
              /\ session'[s].state \in {"revoked", "deleted"}
              /\ session'[s].serial = session[s].serial]_vars
    <2> SUFFICES ASSUME IInv, Next,
                        NEW s \in SessionIds, session[s].state \in {"revoked", "deleted"}
                 PROVE  /\ session'[s].state \in {"revoked", "deleted"}
                        /\ session'[s].serial = session[s].serial
      OBVIOUS
    <2> QED
      BY ClosedStaysClosed
  <1> QED
    BY <1>1, Invariant, PTL DEF Spec, RevokedIsFinal

(* Of the steps that write the account only an administrator's save moves  *)
(* it out of a suspension: the others test for another status or write the *)
(* password alone. *)
LEMMA SuspendedUntilSaved ==
    ASSUME TypeOK, Next, account.status = "SUSPENDED",
           \A p \in Procs : ~At(p, "admin.save")
    PROVE  account'.status = "SUSPENDED"
  <1>1. CASE UNCHANGED account
    BY <1>1
  <1>2. ASSUME NEW p \in Procs, ResetUpdate(p) \/ ChangeUpdate(p)
        PROVE  account'.status = "SUSPENDED"
    BY <1>2 DEF ResetUpdate, ChangeUpdate, TypeOK, Users
  <1>3. ASSUME NEW p \in Procs, Activate(p) \/ RequestDeletion(p) \/ CancelDeletion(p)
        PROVE  UNCHANGED account
    BY <1>3 DEF Activate, MayActivate, RequestDeletion, CancelDeletion, ChangeDeletion
  <1>4. ASSUME NEW p \in Procs, LinkRequest(p)
        PROVE  account'.status = "SUSPENDED"
    BY ZenonT(60), <1>2, <1>3, <1>4 DEF LinkRequest, Register, ResendVerification, IssueDelete, IssueCreate,
                            VerifyEmail, ForgotPassword, ResetPassword
  <1>5. ASSUME NEW p \in Procs, SessionRequest(p)
        PROVE  UNCHANGED account
    BY Zenon, <1>5 DEF SessionRequest, Login, CreateSession, RefreshFind, RefreshUser, RefreshRotate,
                RefreshReuse, AskRevoke, AskLogoutAll, RevokeOne, LogoutAll, Authenticated
  <1>6. ASSUME NEW p \in Procs, AccountRequest(p)
        PROVE  account'.status = "SUSPENDED"
    <2>1. ~AdminSave(p)
      BY DEF AdminSave
    <2> QED
      BY <1>2, <1>3, <1>6, <2>1 DEF AccountRequest, AskChange, AskDeletion, AskCancel,
                                    Authenticated, ChangeCheck, AdminLoad
  <1>7. CASE (\E p \in Procs : Abandon(p)) \/ (\E s \in SessionIds : ExpireSession(s)) \/ Tick
    BY <1>7, <1>1 DEF Abandon, ExpireSession, Tick
  <1> QED
    BY <1>4, <1>5, <1>6, <1>7 DEF Next

(* Only an administrator ends a suspension (usersService.activate,         *)
(* requestDeletion and cancelDeletion, against changeStatus). *)
THEOREM SuspensionIsKept == Spec => SuspensionHolds
  <1>1. IInv /\ [Next]_vars =>
          [account.status = "SUSPENDED" /\ account'.status # "SUSPENDED" =>
              \E p \in Procs : At(p, "admin.save")]_vars
    BY SuspendedUntilSaved DEF IInv
  <1> QED
    BY <1>1, Invariant, PTL DEF Spec, SuspensionHolds

(* A refresh token and a reset link are exchanged at most once             *)
(* (auth.service refresh and consumeToken). *)
THEOREM ExchangesAreSpentOnce == Spec => []SpentOnce
  <1>1. IInv => SpentOnce
    BY DEF IInv, SpentOnce
  <1> QED
    BY <1>1, Invariant, PTL

(* Neither a revoked session nor a suspended account comes back by itself. *)
THEOREM WithdrawalsStay == Spec => WithdrawnStays
  BY RevocationIsFinal, SuspensionIsKept DEF WithdrawnStays

-----------------------------------------------------------------------------
(* Sessions that outlived a password or a suspension.  A session that was  *)
(* not revoked may be revived by a refresh under way after it expired, so  *)
(* the invariant speaks of all that were not revoked; and it has to know   *)
(* that a sign-in under way read an active account. *)
Excused(s) ==
    \/ \E p \in Procs : At(p, "revoke.all")
    \/ history.owed
    \/ history.late[s]

OutlivedAreExcused ==
    \A s \in SessionIds : NotRevoked(s) /\ Outlived(s) => Excused(s)

NoSessionBeforeAccount ==
    account.status = "NONE" => \A s \in SessionIds : session[s].state = "absent"

SignInsReadActive ==
    \A p \in Procs : At(p, "login.create") =>
        req[p].user.status = "ACTIVE" /\ account.status # "NONE"

SavesGiveStatus ==
    \A p \in Procs : At(p, "admin.save") => req[p].status \in {"ACTIVE", "SUSPENDED"}

StaleInv ==
    OutlivedAreExcused /\ NoSessionBeforeAccount /\ SignInsReadActive /\ SavesGiveStatus

LEMMA IdleAtIdle == Idle.at = "idle"
  BY DEF Idle

(* A request that opens no session keeps the invariant if what it makes    *)
(* outlived is about to be closed. *)
LEMMA StaleStep ==
    ASSUME IInv, StaleInv, NEW p \in Procs, NEW r, Go(p, r),
           At(p, "revoke.all") => history'.owed,
           r.at = "login.create" => r.user.status = "ACTIVE" /\ account.status # "NONE",
           r.at = "admin.save" => r.status \in {"ACTIVE", "SUSPENDED"},
           account'.status = "NONE" => account.status = "NONE",
           history'.password = history.password, history'.late = history.late,
           history.owed => history'.owed,
           \A s \in SessionIds :
              /\ session'[s].state = "live" => session[s].state = "live"
              /\ session[s].state = "absent" => session'[s].state = "absent",
           r.at = "revoke.all" \/
              \A s \in SessionIds : session'[s].state = "live" /\ Outlived(s)' => Outlived(s)
    PROVE  StaleInv'
  <1>1. \A q \in Procs : req'[q] = IF q = p THEN r ELSE req[q]
    BY DEF IInv, TypeOK, RequestOK, Go
  <1>2. SignInsReadActive' /\ SavesGiveStatus' /\ NoSessionBeforeAccount'
    BY <1>1 DEF StaleInv, SignInsReadActive, SavesGiveStatus, NoSessionBeforeAccount, At
  <1>3. ASSUME NEW s \in SessionIds, NotRevoked(s)', Outlived(s)'
        PROVE  Excused(s)'
    <2>1. CASE r.at = "revoke.all"
      BY <1>1, <2>1 DEF Excused, At
    <2>2. CASE r.at # "revoke.all"
      <3>1. NotRevoked(s) /\ Outlived(s)
        BY <1>3, <2>2 DEF NotRevoked
      <3>2. Excused(s)
        BY <3>1 DEF StaleInv, OutlivedAreExcused
      <3>3. CASE \E q \in Procs : At(q, "revoke.all")
        BY <1>1, <3>3 DEF Excused, At
      <3>4. CASE history.owed \/ history.late[s]
        BY <3>4 DEF Excused
      <3> QED
        BY <3>2, <3>3, <3>4 DEF Excused
    <2> QED
      BY <2>1, <2>2
  <1> QED
    BY <1>2, <1>3 DEF StaleInv, OutlivedAreExcused

(* Most requests write neither the account nor the history. *)
LEMMA StaleMove ==
    ASSUME IInv, StaleInv, NEW p \in Procs, NEW r, Go(p, r), ~At(p, "revoke.all"),
           r.at = "login.create" => r.user.status = "ACTIVE" /\ account.status # "NONE",
           r.at = "admin.save" => r.status \in {"ACTIVE", "SUSPENDED"},
           UNCHANGED <<account, history>>,
           \A s \in SessionIds :
              /\ session'[s].state = "live" => session[s].state = "live"
              /\ session[s].state = "absent" => session'[s].state = "absent"
    PROVE  StaleInv'
  <1>1. \A s \in SessionIds : Outlived(s)' => Outlived(s)
    BY DEF Outlived
  <1> QED
    BY <1>1, StaleStep

LEMMA StaleStart ==
    ASSUME IInv, StaleInv, NEW p \in Procs, NEW r, Start(p, r),
           r.at = "login.create" => r.user.status = "ACTIVE" /\ account.status # "NONE",
           r.at = "admin.save" => r.status \in {"ACTIVE", "SUSPENDED"},
           UNCHANGED <<account, session, history>>
    PROVE  StaleInv'
  BY StaleMove DEF Start, At

(* What a revocation leaves. *)
LEMMA RevokeOpensNone ==
    ASSUME NEW ids, Revoke(ids)
    PROVE  \A s \in SessionIds :
              /\ session'[s].state = "live" => session[s].state = "live" /\ s \notin ids
              /\ session[s].state = "absent" => session'[s].state = "absent"
  BY DEF Revoke, NotRevoked

LEMMA StaleLinkRequest ==
    ASSUME IInv, StaleInv, NEW p \in Procs, LinkRequest(p)
    PROVE  StaleInv'
  <1> USE DEF Idle
  <1>1. CASE \E w \in Passwords : Register(p, w)
    <2> DEFINE r == [Idle EXCEPT !.at = "issue.delete"]
    <2> r.at = "issue.delete"
      OBVIOUS
    <2> PICK w \in Passwords : Register(p, w)
      BY <1>1
    <2> Start(p, r)
      BY DEF Register
    <2> HIDE DEF r
    <2>1. /\ account.status = "NONE" /\ account'.status = "PENDING_VERIFICATION"
          /\ UNCHANGED <<session, history>>
      BY DEF Register
    <2>2. \A s \in SessionIds : session'[s].state = "absent"
      BY <2>1 DEF StaleInv, NoSessionBeforeAccount
    <2> QED
      BY <2>1, <2>2, StaleStep DEF Start, At
  <1>2. CASE ResendVerification(p) \/ \E l \in LinkIds : VerifyEmail(p, l)
    BY <1>2, StaleStart DEF ResendVerification, VerifyEmail
  <1>3. CASE ForgotPassword(p) \/ \E l \in LinkIds, w \in Passwords : ResetPassword(p, l, w)
    BY <1>3, StaleStart DEF ForgotPassword, ResetPassword
  <1>4. CASE IssueDelete(p) \/ IssueCreate(p)
    BY <1>4, StaleMove DEF IssueDelete, IssueCreate, Done, At
  <1>5. CASE Activate(p)
    <2>1. /\ Go(p, Idle) /\ ~At(p, "revoke.all") /\ UNCHANGED <<session, history>>
          /\ account'.password = account.password
          /\ account'.status # account.status => account'.status = "ACTIVE"
      BY <1>5 DEF Activate, Done, At, SetStatus, IInv, TypeOK, Users
    <2>2. \A s \in SessionIds : Outlived(s)' => Outlived(s)
      BY <2>1 DEF Outlived
    <2> QED
      BY <2>1, <2>2, StaleStep
  <1>6. CASE ResetUpdate(p)
    <2>1. /\ Go(p, [Idle EXCEPT !.at = "revoke.all", !.l = req[p].l]) /\ ~At(p, "revoke.all")
          /\ account'.status = account.status /\ UNCHANGED session
          /\ history'.password = history.password /\ history'.late = history.late
          /\ history'.owed = history.owed
      BY <1>6 DEF ResetUpdate, At, IInv, TypeOK, Users, HistoryOK
    <2> QED
      BY <2>1, StaleStep
  <1> QED
    BY <1>1, <1>2, <1>3, <1>4, <1>5, <1>6 DEF LinkRequest

(* A new session is not outlived unless its sign-in was overtaken. *)
LEMMA StaleCreateSession ==
    ASSUME IInv, StaleInv, NEW p \in Procs, CreateSession(p)
    PROVE  StaleInv'
  <1> DEFINE n == OneOf(Fresh(SessionIds, session))
  <1>1. /\ n \in SessionIds /\ session[n].state = "absent" /\ At(p, "login.create")
        /\ Go(p, Idle) /\ account' = account
    BY OneOfFresh DEF CreateSession, Done
  <1>2. /\ \A s \in SessionIds : s # n => session'[s] = session[s]
        /\ history'.owed = history.owed
        /\ \A s \in SessionIds :
              /\ history'.password[s] = IF s = n THEN req[p].user.password ELSE history.password[s]
              /\ history'.late[s] = IF s = n THEN req[p].user # account ELSE history.late[s]
    BY <1>1 DEF CreateSession, IInv, TypeOK, SessionOK, HistoryOK
  <1> HIDE DEF n
  <1>3. \A q \in Procs : req'[q] = IF q = p THEN Idle ELSE req[q]
    BY <1>1 DEF IInv, TypeOK, RequestOK, Go
  <1>4. req[p].user.status = "ACTIVE" /\ account.status # "NONE"
    BY <1>1 DEF StaleInv, SignInsReadActive
  <1>5. ASSUME NEW s \in SessionIds, NotRevoked(s)', Outlived(s)'
        PROVE  Excused(s)'
    <2>1. CASE s = n
      BY <1>1, <1>2, <1>4, <1>5, <2>1 DEF Excused, Outlived
    <2>2. CASE s # n
      <3>1. NotRevoked(s) /\ Outlived(s)
        BY <1>1, <1>2, <1>5, <2>2 DEF NotRevoked, Outlived
      <3>2. Excused(s)
        BY <3>1 DEF StaleInv, OutlivedAreExcused
      <3> QED
        BY <1>1, <1>2, <1>3, <2>2, <3>2 DEF Excused, At
    <2> QED
      BY <2>1, <2>2
  <1>6. SignInsReadActive' /\ SavesGiveStatus'
    BY <1>1, <1>3, IdleAtIdle DEF StaleInv, SignInsReadActive, SavesGiveStatus, At
  <1>7. NoSessionBeforeAccount'
    BY <1>1, <1>4 DEF NoSessionBeforeAccount
  <1> QED
    BY <1>5, <1>6, <1>7 DEF StaleInv, OutlivedAreExcused

(* A rotation changes no state, even of a session that expired. *)
LEMMA StaleRotate ==
    ASSUME IInv, StaleInv, NEW p \in Procs, RefreshRotate(p)
    PROVE  StaleInv'
  <1>1. /\ Go(p, Idle) /\ ~At(p, "revoke.all") /\ UNCHANGED account
        /\ history'.password = history.password /\ history'.late = history.late
        /\ history'.owed = history.owed
    BY DEF RefreshRotate, Done, At, IInv, TypeOK, HistoryOK
  <1>2. \A s \in SessionIds : session'[s].state = session[s].state
    BY DEF RefreshRotate, IInv, TypeOK, SessionOK
  <1>3. \A s \in SessionIds : Outlived(s)' => Outlived(s)
    BY <1>1 DEF Outlived
  <1> QED
    BY <1>1, <1>2, <1>3, StaleStep DEF Idle

(* The logoutAll that closes what was outlived leaves no session. *)
LEMMA StaleLogoutAll ==
    ASSUME IInv, StaleInv, NEW p \in Procs, LogoutAll(p)
    PROVE  StaleInv'
  <1>1. \A s \in SessionIds :
            /\ session'[s].state # "live"
            /\ session[s].state = "absent" => session'[s].state = "absent"
    BY RevokeOpensNone DEF LogoutAll
  <1>2. \A q \in Procs : req'[q] = IF q = p THEN Idle ELSE req[q]
    BY DEF LogoutAll, Done, Go, IInv, TypeOK, RequestOK
  <1>3. account' = account
    BY DEF LogoutAll
  <1> QED
    BY <1>1, <1>2, <1>3, IdleAtIdle
       DEF StaleInv, OutlivedAreExcused, NoSessionBeforeAccount, SignInsReadActive,
           SavesGiveStatus, NotRevoked, At

LEMMA StaleSessionRequest ==
    ASSUME IInv, StaleInv, NEW p \in Procs, SessionRequest(p)
    PROVE  StaleInv'
  <1> USE DEF Idle
  <1>1. CASE \E w \in Passwords, c \in Contexts : Login(p, w, c)
    BY <1>1, StaleStart DEF Login, AssertLoginAllowed
  <1>2. CASE \E s \in SessionIds, n \in 1 .. MaxSerial, c \in Contexts : RefreshFind(p, s, n, c)
    BY <1>2, StaleStart DEF RefreshFind
  <1>3. CASE \/ \E s, t \in SessionIds : AskRevoke(p, s, t)
             \/ \E s \in SessionIds : AskLogoutAll(p, s)
    BY <1>3, StaleStart DEF AskRevoke, AskLogoutAll, Authenticated
  <1>4. CASE RefreshUser(p)
    <2>1. PICK r : Go(p, r) /\ r.at \in {"refresh.rotate", "idle"}
      <3>1. CASE AssertLoginAllowed(account.status)
        <4>1. [req[p] EXCEPT !.at = "refresh.rotate"].at = "refresh.rotate"
          BY DEF IInv, TypeOK, RequestOK
        <4> QED
          BY <1>4, <3>1, <4>1 DEF RefreshUser
      <3>2. CASE ~AssertLoginAllowed(account.status)
        BY <1>4, <3>2, IdleAtIdle DEF RefreshUser, Done
      <3> QED
        BY <3>1, <3>2
    <2> QED
      BY <1>4, <2>1, StaleMove DEF RefreshUser, At
  <1>5. CASE RefreshReuse(p) \/ RevokeOne(p)
    BY <1>5, StaleMove, RevokeOpensNone DEF RefreshReuse, RevokeOne, Done, At
  <1> QED
    BY <1>1, <1>2, <1>3, <1>4, <1>5, StaleCreateSession, StaleRotate, StaleLogoutAll
       DEF SessionRequest

LEMMA StaleAccountRequest ==
    ASSUME IInv, StaleInv, NEW p \in Procs, AccountRequest(p)
    PROVE  StaleInv'
  <1> USE DEF Idle
  <1>1. CASE \/ \E s \in SessionIds, w \in Passwords : AskChange(p, s, w)
             \/ \E s \in SessionIds : AskDeletion(p, s) \/ AskCancel(p, s)
    BY <1>1, StaleStart DEF AskChange, AskDeletion, AskCancel, Authenticated
  <1>2. CASE \E status \in {"ACTIVE", "SUSPENDED"} : AdminLoad(p, status)
    BY <1>2, StaleStart DEF AdminLoad
  <1>3. CASE ChangeCheck(p)
    <2>1. Go(p, [req[p] EXCEPT !.at = "change.update"]) /\ ~At(p, "revoke.all")
      BY <1>3 DEF ChangeCheck, At
    <2>2. [req[p] EXCEPT !.at = "change.update"].at = "change.update"
      BY DEF IInv, TypeOK, RequestOK
    <2> QED
      BY <1>3, <2>1, <2>2, StaleMove DEF ChangeCheck
  <1>4. CASE ChangeUpdate(p)
    <2>1. /\ Go(p, [Idle EXCEPT !.at = "revoke.all"]) /\ ~At(p, "revoke.all")
          /\ account'.status = account.status /\ UNCHANGED <<session, history>>
      BY <1>4 DEF ChangeUpdate, At, IInv, TypeOK, Users
    <2> QED
      BY <2>1, StaleStep
  <1>5. CASE RequestDeletion(p) \/ CancelDeletion(p)
    <2>1. /\ Go(p, Idle) /\ ~At(p, "revoke.all") /\ UNCHANGED <<session, history>>
          /\ account'.password = account.password
          /\ account'.status # account.status => account'.status \in {"ACTIVE", "DELETION_PENDING"}
      BY <1>5 DEF RequestDeletion, CancelDeletion, ChangeDeletion, Done, At, SetStatus,
                  IInv, TypeOK, Users
    <2>2. \A s \in SessionIds : Outlived(s)' => Outlived(s)
      BY <2>1 DEF Outlived
    <2> QED
      BY <2>1, <2>2, StaleStep
  <1>6. CASE AdminSave(p)
    <2> DEFINE r == [Idle EXCEPT !.at = AfterStatus(req[p].status)]
    <2>1. /\ Go(p, r) /\ At(p, "admin.save") /\ UNCHANGED <<session, history>>
          /\ account'.password = account.password
          /\ account'.status \in {account.status, req[p].status}
          /\ req[p].status \in {"ACTIVE", "SUSPENDED"}
      BY <1>6 DEF AdminSave, SetStatus, StaleInv, SavesGiveStatus, IInv, TypeOK, Users
    <2>2. r.at = IF req[p].status = "SUSPENDED" THEN "revoke.all" ELSE "idle"
      BY DEF AfterStatus
    <2>3. CASE req[p].status = "SUSPENDED"
      BY <2>1, <2>2, <2>3, StaleStep DEF At
    <2>4. CASE req[p].status = "ACTIVE"
      <3>1. \A s \in SessionIds : Outlived(s)' => Outlived(s)
        BY <2>1, <2>4 DEF Outlived
      <3> QED
        BY <2>1, <2>2, <2>4, <3>1, StaleStep DEF At
    <2> QED
      BY <2>1, <2>3, <2>4
  <1> QED
    BY <1>1, <1>2, <1>3, <1>4, <1>5, <1>6 DEF AccountRequest

LEMMA StaleAbandon ==
    ASSUME IInv, StaleInv, NEW p \in Procs, Abandon(p)
    PROVE  StaleInv'
  <1>1. /\ Go(p, Idle) /\ UNCHANGED <<account, session>>
        /\ history'.password = history.password /\ history'.late = history.late
        /\ history'.owed = (history.owed \/ At(p, "revoke.all"))
    BY DEF Abandon, Done, IInv, TypeOK, HistoryOK
  <1>2. \A s \in SessionIds : Outlived(s)' => Outlived(s)
    BY <1>1 DEF Outlived
  <1> QED
    BY <1>1, <1>2, StaleStep DEF Idle

LEMMA StaleEnvironment ==
    ASSUME IInv, StaleInv, (\E s \in SessionIds : ExpireSession(s)) \/ Tick \/ UNCHANGED vars
    PROVE  StaleInv'
  <1>1. UNCHANGED <<account, req, history>>
    BY DEF ExpireSession, Tick, vars
  <1>2. \A s \in SessionIds :
            /\ session'[s].state = "live" => session[s].state = "live"
            /\ session[s].state = "absent" => session'[s].state = "absent"
    BY DEF ExpireSession, Tick, vars, IInv, TypeOK, SessionOK
  <1> QED
    BY <1>1, <1>2 DEF StaleInv, OutlivedAreExcused, Excused, Outlived, NoSessionBeforeAccount,
                      SignInsReadActive, SavesGiveStatus, NotRevoked, At

(* After a password change or reset, and while the account is suspended,   *)
(* no session opened before is usable (docs/authentication-flow.md:12)     *)
(* unless the closing logoutAll is still to come or was cut off, or its    *)
(* sign-in was overtaken: however many requests overlap. *)
THEOREM StaleSessionsEnd == Spec => []StaleSessionsAreOut
  <1>1. Init => StaleInv
    <2> SUFFICES ASSUME Init PROVE StaleInv
      OBVIOUS
    <2>1. /\ \A s \in SessionIds : session[s].state = "absent"
          /\ \A p \in Procs : req[p].at = "idle"
      BY IdleAtIdle DEF Init, NoSession
    <2> QED
      BY <2>1 DEF StaleInv, OutlivedAreExcused, NoSessionBeforeAccount, SignInsReadActive,
                  SavesGiveStatus, NotRevoked, At
  <1>2. IInv /\ StaleInv /\ [Next]_vars => StaleInv'
    BY StaleLinkRequest, StaleSessionRequest, StaleAccountRequest, StaleAbandon, StaleEnvironment
       DEF Next
  <1>3. StaleInv => StaleSessionsAreOut
    BY DEF StaleInv, OutlivedAreExcused, Excused, StaleSessionsAreOut, IsSessionActive
  <1> QED
    BY <1>1, <1>2, <1>3, Invariant, PTL DEF Spec

-----------------------------------------------------------------------------
(* Events, notifications and mails.                                        *)

NoticeSpec == NoticeInit /\ [][NoticeNext]_noticeVars

EmailStates == {"none", "PENDING", "SKIPPED_PREFERENCE", "NOT_CONFIGURED", "FAILED", "SENT"}
NoticeTypes ==
  /\ event \in {"open", "done"}
  /\ plan \in {<<"notification", "recommendation">>, <<"notification">>, <<"alert">>}
  /\ email \in [References -> EmailStates]
  /\ gone \in BOOLEAN
  /\ wants \in [mail : BOOLEAN, category : [References -> BOOLEAN]]
  /\ configured \in [scheduler : BOOLEAN, worker : BOOLEAN]
  /\ pc \in [Schedulers -> {"idle", "user", "lookup", "create", "add", "addFailed", "return"}]
  /\ at \in [Schedulers -> 1..Len(plan)]
  /\ want \in [Schedulers -> {"PENDING", "SKIPPED_PREFERENCE", "NOT_CONFIGURED"}]
  /\ job \in [References -> {"absent", "waiting", "active", "completed", "failed"}]
  /\ failures \in [References -> Nat]
  /\ stalls \in [References -> Nat]
  /\ wpc \in [References -> {"idle", "load", "user", "skip", "send", "save", "raise", "end"}]
  /\ copy \in [References -> EmailStates]
  /\ outcome \in [References -> {"none", "SENT", "NOT_CONFIGURED", "FAILED"}]
  /\ sent \in [References -> Nat]
  /\ lost \in [References -> Nat]
  /\ declined \in [References -> BOOLEAN]
  /\ orphaned \in [References -> BOOLEAN]
  /\ unsure \in [References -> BOOLEAN]
  /\ swallowed \in BOOLEAN
  /\ faults \in Nat

\* What a handler has behind it is stored or was unwanted. It adds the job of a
\* notification that it created itself, which has none until it does.
Told(r) == email[r] # "none" \/ declined[r]
Adding(s) == pc[s] \in {"add", "addFailed"}
HandlerHolds(s) ==
  /\ \A i \in 1..Len(plan) : i < at[s] \/ pc[s] = "return" => Told(plan[i])
  /\ Adding(s) => email[Ref(s)] # "none"
  /\ Adding(s) /\ (pc[s] = "add" \/ ~unsure[Ref(s)]) => job[Ref(s)] = "absent"
OneAdds == \A s, t \in Schedulers : Adding(s) /\ Adding(t) /\ Ref(s) = Ref(t) => s = t

\* While a worker holds a mail that is not on record, nobody else records one: what
\* was sent is on record, about to be, or lost.
Holding(r) == wpc[r] \in {"user", "skip", "send", "save"}
JustSent(r) == wpc[r] = "save" /\ outcome[r] = "SENT"
JobHolds(r) ==
  /\ wpc[r] # "idle" <=> job[r] = "active"
  /\ job[r] # "absent" => email[r] # "none"
  /\ job[r] = "absent" => sent[r] = 0
  /\ Holding(r) => email[r] # "SENT" /\ ~Settled(copy[r])
  /\ wpc[r] = "save" => outcome[r] # "none"
SentHolds(r) ==
  /\ email[r] = "SENT" \/ JustSent(r) => sent[r] > 0
  /\ unsure[r] \/ sent[r] <= lost[r] \/ ((email[r] = "SENT" \/ JustSent(r)) /\ sent[r] <= lost[r] + 1)

\* A mail is PENDING until its job is added, and then until a worker is done with it.
PendingHolds(r) ==
  /\ Holding(r) /\ copy[r] # "PENDING" => email[r] # "PENDING"
  /\ wpc[r] = "end" \/ job[r] = "completed" => email[r] # "PENDING" \/ gone
  /\ email[r] = "PENDING" /\ job[r] = "absent"
       => orphaned[r] \/ \E s \in Schedulers : Adding(s) /\ Ref(s) = r

NoticeInv ==
  /\ NoticeTypes
  /\ \A s \in Schedulers : HandlerHolds(s)
  /\ OneAdds
  /\ \A r \in References : JobHolds(r) /\ SentHolds(r) /\ PendingHolds(r)
  /\ DoneMeansNotified

-----------------------------------------------------------------------------
LEMMA PlanFacts ==
  ASSUME NoticeTypes
  PROVE  /\ Len(plan) \in Nat /\ 1 <= Len(plan)
         /\ \A i \in 1..Len(plan) : plan[i] \in References
         /\ \A s \in Schedulers : Ref(s) \in References
<1>1. /\ Len(plan) \in Nat /\ 1 <= Len(plan)
      /\ \A i \in 1..Len(plan) : plan[i] \in References
  <2>1. CASE plan = <<"notification", "recommendation">>
    BY <2>1 DEF References
  <2>2. CASE plan = <<"notification">>
    BY <2>2 DEF References
  <2>3. CASE plan = <<"alert">>
    BY <2>3 DEF References
  <2>. QED BY <2>1, <2>2, <2>3 DEF NoticeTypes
<1>. QED BY <1>1 DEF NoticeTypes, Ref

LEMMA NoticeInitially == NoticeInit => NoticeInv
<1>. SUFFICES ASSUME NoticeInit PROVE NoticeInv
  OBVIOUS
<1>1. NoticeTypes
  <2>1. plan \in {<<"notification", "recommendation">>, <<"notification">>, <<"alert">>}
    BY NotificationsAssumption DEF NoticeInit
  <2>2. 1 \in 1..Len(plan)
    BY <2>1
  <2>. QED BY <2>1, <2>2 DEF NoticeInit, NoticeTypes, All, EmailStates
<1>2. \A r \in References :
        email[r] = "none" /\ job[r] = "absent" /\ wpc[r] = "idle" /\ sent[r] = 0 /\ lost[r] = 0
  BY DEF NoticeInit, All
<1>3. \A s \in Schedulers : pc[s] = "idle" /\ at[s] = 1
  BY DEF NoticeInit
<1>4. \A r \in References : JobHolds(r) /\ SentHolds(r) /\ PendingHolds(r)
  BY <1>2 DEF JobHolds, SentHolds, PendingHolds, Holding, JustSent
<1>5. \A s \in Schedulers : ~Adding(s)
  BY <1>3 DEF Adding
<1>6. ASSUME NEW s \in Schedulers PROVE HandlerHolds(s)
  BY <1>1, <1>3, <1>5, PlanFacts DEF HandlerHolds
<1>7. DoneMeansNotified
  BY DEF NoticeInit, DoneMeansNotified
<1>. QED BY <1>1, <1>4, <1>5, <1>6, <1>7 DEF NoticeInv, OneAdds

LEMMA HandlerTypes ==
  ASSUME NoticeTypes, NEW s \in Schedulers,
         HandlerStep(s) \/ AddFails(s) \/ HandlerFails(s) \/ SchedulerCrash(s)
  PROVE  NoticeTypes'
<1>0. Len(plan) \in Nat /\ 1 <= Len(plan) /\ Ref(s) \in References
  BY PlanFacts
<1>. USE DEF user, handler, queue, worker, noticeHistory
<1>1. ASSUME Onward(s), plan' = plan
      PROVE  /\ pc' \in [Schedulers -> {"idle", "user", "lookup", "create", "add", "addFailed", "return"}]
             /\ at' \in [Schedulers -> 1..Len(plan')]
  <2>1. at \in [Schedulers -> 1..Len(plan)]
        /\ pc \in [Schedulers -> {"idle", "user", "lookup", "create", "add", "addFailed", "return"}]
    BY DEF NoticeTypes
  <2>2. CASE at[s] < Len(plan)
    <3>1. at[s] + 1 \in 1..Len(plan)
      BY <1>0, <2>1, <2>2
    <3>. QED BY <1>1, <2>1, <2>2, <3>1 DEF Onward
  <2>. QED BY <1>1, <2>1, <2>2 DEF Onward, HandlerGoes
<1>2. ASSUME Leave(s), plan' = plan
      PROVE  /\ pc' \in [Schedulers -> {"idle", "user", "lookup", "create", "add", "addFailed", "return"}]
             /\ at' \in [Schedulers -> 1..Len(plan')]
             /\ want' \in [Schedulers -> {"PENDING", "SKIPPED_PREFERENCE", "NOT_CONFIGURED"}]
  BY <1>0, <1>2 DEF NoticeTypes, Leave
<1>3. CASE Deliver(s)
  BY <1>0, <1>3 DEF NoticeTypes, Deliver
<1>4. CASE LoadUser(s)
  <2>1. FirstStatus(Ref(s)) \in {"PENDING", "SKIPPED_PREFERENCE", "NOT_CONFIGURED"}
    BY DEF FirstStatus
  <2>2. /\ pc' \in [Schedulers -> {"idle", "user", "lookup", "create", "add", "addFailed", "return"}]
        /\ at' \in [Schedulers -> 1..Len(plan')]
    BY <1>1, <1>4 DEF NoticeTypes, LoadUser, HandlerGoes
  <2>3. /\ want' \in [Schedulers -> {"PENDING", "SKIPPED_PREFERENCE", "NOT_CONFIGURED"}]
        /\ declined' \in [References -> BOOLEAN]
    BY ZenonT(60), <1>0, <1>4, <2>1 DEF NoticeTypes, LoadUser
  <2>. QED BY <1>4, <2>2, <2>3 DEF NoticeTypes, LoadUser
<1>5. CASE Lookup(s)
  <2>1. /\ pc' \in [Schedulers -> {"idle", "user", "lookup", "create", "add", "addFailed", "return"}]
        /\ at' \in [Schedulers -> 1..Len(plan')]
    BY ZenonT(60), <1>1, <1>5 DEF NoticeTypes, Lookup, HandlerGoes
  <2>. QED BY <1>5, <2>1 DEF NoticeTypes, Lookup
<1>6. CASE Create(s)
  <2>1. /\ pc' \in [Schedulers -> {"idle", "user", "lookup", "create", "add", "addFailed", "return"}]
        /\ at' \in [Schedulers -> 1..Len(plan')]
    BY <1>1, <1>6 DEF NoticeTypes, Create, HandlerGoes
  <2>2. email' \in [References -> EmailStates]
    <3>1. want[s] \in EmailStates /\ email \in [References -> EmailStates]
      BY DEF NoticeTypes, EmailStates
    <3>. QED BY <1>0, <1>6, <3>1 DEF Create
  <2>. QED BY <1>6, <2>1, <2>2 DEF NoticeTypes, Create
<1>7. CASE Add(s)
  BY <1>0, <1>1, <1>7 DEF NoticeTypes, Add, AddJob
<1>8. CASE AddFails(s)
  <2>1. job' \in [References -> {"absent", "waiting", "active", "completed", "failed"}]
    <3>1. job' = job \/ AddJob(Ref(s))
      BY <1>8 DEF AddFails
    <3>2. job \in [References -> {"absent", "waiting", "active", "completed", "failed"}]
      BY DEF NoticeTypes
    <3>. QED BY <1>0, <3>1, <3>2 DEF AddJob
  <2>2. unsure' \in [References -> BOOLEAN]
    BY <1>0, <1>8 DEF NoticeTypes, AddFails
  <2>3. faults' \in Nat
    BY <1>8 DEF NoticeTypes, AddFails, Fault
  <2>. QED BY <1>8, <2>1, <2>2, <2>3 DEF NoticeTypes, AddFails, HandlerGoes
<1>9. CASE SaveAddFailed(s)
  <2>1. email' \in [References -> EmailStates]
    BY <1>0, <1>9 DEF NoticeTypes, SaveAddFailed, RecordFailure, EmailStates
  <2>. QED BY <1>1, <1>9, <2>1 DEF NoticeTypes, SaveAddFailed
<1>10. CASE Acknowledge(s)
  BY <1>2, <1>10 DEF NoticeTypes, Acknowledge
<1>11. CASE HandlerFails(s)
  <2>1. /\ orphaned' \in [References -> BOOLEAN] /\ faults' \in Nat
        /\ event' \in {"open", "done"} /\ swallowed' \in BOOLEAN
    BY <1>0, <1>11, NotificationsAssumption DEF NoticeTypes, HandlerFails, Orphan, Fault
  <2>. QED BY <1>2, <1>11, <2>1 DEF NoticeTypes, HandlerFails
<1>12. CASE SchedulerCrash(s)
  <2>1. orphaned' \in [References -> BOOLEAN] /\ faults' \in Nat
    BY <1>0, <1>12 DEF NoticeTypes, SchedulerCrash, Orphan, Fault
  <2>. QED BY <1>2, <1>12, <2>1 DEF NoticeTypes, SchedulerCrash
<1>. QED BY <1>3, <1>4, <1>5, <1>6, <1>7, <1>8, <1>9, <1>10, <1>11, <1>12 DEF HandlerStep

LEMMA MailWorkerTypes ==
  ASSUME NoticeTypes, NEW r \in References, WorkerStep(r) \/ WorkerFails(r) \/ WorkerCrash(r)
  PROVE  NoticeTypes'
<1>. USE DEF user, handler, queue, worker, noticeHistory
<1>1. ASSUME NEW x \in {"waiting", "completed", "failed"}, Finish(r, x)
      PROVE  /\ job' \in [References -> {"absent", "waiting", "active", "completed", "failed"}]
             /\ wpc' \in [References -> {"idle", "load", "user", "skip", "send", "save", "raise", "end"}]
             /\ copy' \in [References -> EmailStates]
             /\ outcome' \in [References -> {"none", "SENT", "NOT_CONFIGURED", "FAILED"}]
  BY <1>1 DEF NoticeTypes, Finish, EmailStates
<1>0. ASSUME NEW x \in {"load", "user", "skip", "send", "save", "raise", "end"}, WorkerGoes(r, x)
      PROVE  wpc' \in [References -> {"idle", "load", "user", "skip", "send", "save", "raise", "end"}]
  BY <1>0 DEF NoticeTypes, WorkerGoes
<1>2. CASE TakeJob(r) \/ LoadNotification(r) \/ CheckUser(r)
  <2>1. wpc' \in [References -> {"idle", "load", "user", "skip", "send", "save", "raise", "end"}]
    BY <1>0, <1>2 DEF TakeJob, LoadNotification, CheckUser
  <2>2. job' \in [References -> {"absent", "waiting", "active", "completed", "failed"}]
    <3>1. job' = job \/ job' = [job EXCEPT ![r] = "active"]
      BY <1>2 DEF TakeJob, LoadNotification, CheckUser
    <3>2. job \in [References -> {"absent", "waiting", "active", "completed", "failed"}]
      BY DEF NoticeTypes
    <3>. QED BY <3>1, <3>2
  <2>3. copy' \in [References -> EmailStates]
    <3>1. copy' = copy \/ copy' = [copy EXCEPT ![r] = email[r]]
      BY <1>2 DEF TakeJob, LoadNotification, CheckUser
    <3>2. copy \in [References -> EmailStates] /\ email \in [References -> EmailStates]
      BY DEF NoticeTypes
    <3>. QED BY <3>1, <3>2
  <2>. QED BY <1>2, <2>1, <2>2, <2>3 DEF NoticeTypes, TakeJob, LoadNotification, CheckUser
<1>3. CASE SaveSkip(r) \/ SaveOutcome(r)
  <2>1. email' \in [References -> EmailStates]
    <3>1. outcome[r] \in EmailStates /\ "SKIPPED_PREFERENCE" \in EmailStates
          /\ email \in [References -> EmailStates]
      BY DEF NoticeTypes, EmailStates
    <3>. QED BY <1>3, <3>1 DEF SaveSkip, SaveOutcome
  <2>2. wpc' \in [References -> {"idle", "load", "user", "skip", "send", "save", "raise", "end"}]
    BY <1>0, <1>3 DEF SaveSkip, SaveOutcome
  <2>. QED BY <1>3, <2>1, <2>2 DEF NoticeTypes, SaveSkip, SaveOutcome
<1>4. CASE Send(r)
  <2>1. outcome' \in [References -> {"none", "SENT", "NOT_CONFIGURED", "FAILED"}]
    BY ZenonT(60), <1>4 DEF NoticeTypes, Send, Unconfigured
  <2>2. sent' \in [References -> Nat] /\ lost' \in [References -> Nat] /\ faults' \in Nat
    <3>1. sent \in [References -> Nat] /\ lost \in [References -> Nat] /\ faults \in Nat
      BY DEF NoticeTypes
    <3>. QED BY <1>4, <3>1 DEF Send, Fault
  <2>3. wpc' \in [References -> {"idle", "load", "user", "skip", "send", "save", "raise", "end"}]
    BY <1>0, <1>4 DEF Send
  <2>. QED BY <1>4, <2>1, <2>2, <2>3 DEF NoticeTypes, Send
<1>5. CASE CompleteJob(r)
  BY <1>1, <1>5 DEF NoticeTypes, CompleteJob
<1>6. ASSUME FailJob(r)
      PROVE  /\ \E x \in {"waiting", "completed", "failed"} : Finish(r, x)
             /\ failures' \in [References -> Nat]
             /\ UNCHANGED <<event, plan, email, user, configured, handler, stalls>>
  BY <1>6 DEF NoticeTypes, FailJob
<1>7. CASE RaiseUnavailable(r)
  BY <1>1, <1>6, <1>7 DEF NoticeTypes, RaiseUnavailable
<1>8. ASSUME LoseSent(r) PROVE lost' \in [References -> Nat]
  BY <1>8 DEF NoticeTypes, LoseSent
<1>9. CASE WorkerFails(r)
  <2>1. PICK x \in {"waiting", "completed", "failed"} : Finish(r, x)
    BY <1>6, <1>9 DEF WorkerFails
  <2>2. faults' \in Nat
    BY <1>9 DEF NoticeTypes, WorkerFails, Fault
  <2>3. /\ failures' \in [References -> Nat] /\ lost' \in [References -> Nat]
        /\ UNCHANGED <<event, plan, email, gone, wants, configured, pc, at, want, stalls, sent, declined,
                       orphaned, unsure, swallowed>>
    BY <1>6, <1>8, <1>9 DEF WorkerFails
  <2>. QED BY <1>1, <2>1, <2>2, <2>3 DEF NoticeTypes
<1>10. CASE WorkerCrash(r)
  <2>1. PICK x \in {"waiting", "completed", "failed"} : Finish(r, x)
    BY <1>10 DEF WorkerCrash
  <2>2. stalls' \in [References -> Nat] /\ faults' \in Nat
    BY <1>10 DEF NoticeTypes, WorkerCrash, Fault
  <2>. QED BY <1>1, <1>8, <1>10, <2>1, <2>2 DEF NoticeTypes, WorkerCrash
<1>. QED BY <1>2, <1>3, <1>4, <1>5, <1>7, <1>9, <1>10 DEF WorkerStep

-----------------------------------------------------------------------------
(* What a step of a handler, and of a worker, has to show.                 *)

LEMMA HandlerFrame ==
  ASSUME NoticeInv, NoticeTypes', NEW s \in Schedulers,
         UNCHANGED <<plan, gone, wpc, copy, outcome, sent, lost>>,
         \A t \in Schedulers : t # s => pc'[t] = pc[t] /\ at'[t] = at[t],
         \A r \in References : r # Ref(s) => email'[r] = email[r] /\ job'[r] = job[r],
         \A r \in References : (declined[r] => declined'[r]) /\ (orphaned[r] => orphaned'[r])
                               /\ (unsure[r] => unsure'[r]),
         \/ email'[Ref(s)] = email[Ref(s)]
         \/ pc[s] = "create" /\ email[Ref(s)] = "none" /\ email'[Ref(s)] \notin {"none", "SENT"}
            /\ (email'[Ref(s)] = "PENDING" => Adding(s)' /\ at'[s] = at[s])
         \/ pc[s] = "addFailed" /\ email'[Ref(s)] = "FAILED",
         \/ job'[Ref(s)] = job[Ref(s)]
         \/ pc[s] = "add" /\ job[Ref(s)] = "absent" /\ job'[Ref(s)] = "waiting",
         Adding(s)' => at'[s] = at[s] /\ (Adding(s) \/ (pc[s] = "create" /\ email[Ref(s)] = "none")),
         Adding(s) /\ ~Adding(s)'
           => orphaned'[Ref(s)] \/ email'[Ref(s)] # "PENDING" \/ job'[Ref(s)] # "absent",
         HandlerHolds(s)', DoneMeansNotified'
  PROVE  NoticeInv'
<1>0. /\ Ref(s) \in References /\ Ref(s) \in References
      /\ \A t \in Schedulers : Ref(t) \in References /\ (t # s => Ref(t)' = Ref(t))
      /\ at'[s] = at[s] => Ref(s)' = Ref(s)
  BY PlanFacts DEF NoticeInv, Ref
<1>1. \A t \in Schedulers : HandlerHolds(t)
  BY DEF NoticeInv
<1>2. \A r \in References : JobHolds(r) /\ SentHolds(r) /\ PendingHolds(r)
  BY DEF NoticeInv
<1>3. \A r \in References : email[r] # "none" => email'[r] # "none"
  OBVIOUS
<1>4. \A r \in References : Told(r) => Told(r)'
  BY <1>3 DEF Told
<1>5. ASSUME NEW t \in Schedulers PROVE HandlerHolds(t)'
  <2>. SUFFICES ASSUME t # s PROVE HandlerHolds(t)'
    OBVIOUS
  <2>1. Adding(t)' <=> Adding(t)
    BY DEF Adding
  <2>2. \A i \in 1..Len(plan) : i < at[t] \/ pc[t] = "return" => Told(plan[i])'
    BY <1>1, <1>4, PlanFacts DEF HandlerHolds, NoticeInv
  <2>3. Adding(t) => email'[Ref(t)] # "none"
    BY <1>0, <1>1, <1>3 DEF HandlerHolds
  <2>4. Adding(t) /\ (pc[t] = "add" \/ ~unsure'[Ref(t)]) => job'[Ref(t)] = "absent"
    <3>1. Adding(t) /\ (pc[t] = "add" \/ ~unsure'[Ref(t)]) => job[Ref(t)] = "absent"
      BY <1>0, <1>1 DEF HandlerHolds
    <3>2. Adding(t) /\ Ref(t) = Ref(s) => pc[s] # "add"
      BY DEF NoticeInv, OneAdds, Adding
    <3>. QED BY <1>0, <3>1, <3>2
  <2>. QED BY <1>0, <2>1, <2>2, <2>3, <2>4 DEF HandlerHolds
<1>6. OneAdds'
  <2>. SUFFICES ASSUME NEW t \in Schedulers, t # s, Adding(t), Adding(s)', Ref(t) = Ref(s)'
                PROVE  FALSE
    BY <1>0 DEF OneAdds, NoticeInv, Adding
  <2>1. Ref(t) = Ref(s)
    BY <1>0
  <2>2. email[Ref(s)] # "none"
    BY <1>1, <2>1 DEF HandlerHolds
  <2>. QED BY <2>1, <2>2 DEF NoticeInv, OneAdds
<1>7. ASSUME NEW r \in References PROVE JobHolds(r)'
  <2>1. r = Ref(s) /\ pc[s] = "add" => email[r] # "none"
    BY <1>1 DEF HandlerHolds, Adding
  <2>2. Holding(r)' <=> Holding(r)
    BY DEF Holding
  <2>3. email'[r] = "SENT" => email[r] = "SENT"
    OBVIOUS
  <2>. QED BY <1>2, <1>3, <2>1, <2>2, <2>3 DEF JobHolds
<1>8. ASSUME NEW r \in References PROVE SentHolds(r)'
  <2>1. JustSent(r)' <=> JustSent(r)
    BY DEF JustSent
  <2>2. CASE email'[r] = "SENT" <=> email[r] = "SENT"
    BY <1>2, <2>1, <2>2 DEF SentHolds
  <2>3. CASE r = Ref(s) /\ pc[s] = "addFailed" /\ email[r] = "SENT" /\ email'[r] = "FAILED"
    <3>1. sent[r] # 0
      BY <1>2, <2>3 DEF SentHolds, NoticeInv, NoticeTypes
    <3>2. unsure[r]
      BY <1>1, <1>2, <2>3, <3>1 DEF HandlerHolds, JobHolds, Adding
    <3>. QED BY <1>2, <2>1, <2>3, <3>2 DEF SentHolds
  <2>. QED BY <2>2, <2>3
<1>9. ASSUME NEW r \in References PROVE PendingHolds(r)'
  <2>1. Holding(r)' <=> Holding(r)
    BY DEF Holding
  <2>2. email'[r] = "PENDING" => \/ email[r] = "PENDING"
                                 \/ email[r] = "none" /\ Adding(s)' /\ Ref(s)' = r
    BY <1>0
  <2>3. Holding(r) \/ wpc[r] = "end" \/ job'[r] = "completed" => email[r] # "none"
    BY <1>2 DEF JobHolds, Holding
  <2>4. ASSUME email'[r] = "PENDING", job'[r] = "absent", ~orphaned'[r]
        PROVE  \E t \in Schedulers : Adding(t)' /\ Ref(t)' = r
    <3>1. CASE email[r] = "PENDING"
      <4>1. PICK t \in Schedulers : Adding(t) /\ Ref(t) = r
        BY <1>2, <2>4, <3>1 DEF PendingHolds
      <4>2. CASE t # s
        BY <1>0, <4>1, <4>2 DEF Adding
      <4>3. CASE t = s
        BY <1>0, <2>4, <4>1, <4>3
      <4>. QED BY <4>2, <4>3
    <3>. QED BY <2>2, <2>4, <3>1
  <2>5. job'[r] = "completed" => job[r] = "completed"
    OBVIOUS
  <2>. QED BY <1>2, <2>1, <2>2, <2>3, <2>4, <2>5 DEF PendingHolds
<1>. QED BY <1>5, <1>6, <1>7, <1>8, <1>9 DEF NoticeInv

LEMMA WorkerFrame ==
  ASSUME NoticeInv, NoticeTypes', NEW r \in References,
         UNCHANGED <<event, plan, gone, pc, at, declined, orphaned, unsure, swallowed>>,
         \A q \in References : q # r =>
           /\ email'[q] = email[q] /\ job'[q] = job[q] /\ wpc'[q] = wpc[q] /\ copy'[q] = copy[q]
           /\ outcome'[q] = outcome[q] /\ sent'[q] = sent[q] /\ lost'[q] = lost[q],
         job[r] # "absent", job'[r] # "absent", email'[r] # "none",
         email'[r] = "PENDING" => email[r] = "PENDING",
         JobHolds(r)', SentHolds(r)',
         Holding(r)' /\ copy'[r] # "PENDING" => email'[r] # "PENDING",
         wpc'[r] = "end" \/ job'[r] = "completed" => email'[r] # "PENDING" \/ gone
  PROVE  NoticeInv'
<1>0. \A t \in Schedulers : Ref(t) \in References /\ Ref(t)' = Ref(t)
  BY PlanFacts DEF NoticeInv, Ref
<1>1. \A q \in References : Told(q) => Told(q)'
  BY DEF Told
<1>2. \A t \in Schedulers : Adding(t)' <=> Adding(t)
  BY DEF Adding
<1>3. ASSUME NEW t \in Schedulers PROVE HandlerHolds(t)'
  <2>1. HandlerHolds(t)
    BY DEF NoticeInv
  <2>2. \A i \in 1..Len(plan) : i < at[t] \/ pc[t] = "return" => Told(plan[i])'
    BY <1>1, <2>1, PlanFacts DEF HandlerHolds, NoticeInv
  <2>. QED BY <1>0, <1>2, <2>1, <2>2 DEF HandlerHolds
<1>4. OneAdds'
  BY <1>0, <1>2 DEF NoticeInv, OneAdds
<1>5. ASSUME NEW q \in References, q # r PROVE JobHolds(q)' /\ SentHolds(q)' /\ PendingHolds(q)'
  <2>1. JobHolds(q) /\ SentHolds(q) /\ PendingHolds(q)
    BY DEF NoticeInv
  <2>2. JobHolds(q)' /\ SentHolds(q)'
    BY <1>5, <2>1 DEF JobHolds, SentHolds, Holding, JustSent
  <2>3. PendingHolds(q)'
    BY <1>0, <1>2, <1>5, <2>1 DEF PendingHolds, Holding
  <2>. QED BY <2>2, <2>3
<1>6. PendingHolds(r)'
  BY DEF PendingHolds
<1>7. DoneMeansNotified'
  <2>1. \A q \in Planned : q \in References
    BY PlanFacts DEF Planned, NoticeInv
  <2>. QED BY <1>1, <2>1 DEF DoneMeansNotified, NoticeInv, Told, Planned
<1>. QED BY <1>3, <1>4, <1>5, <1>6, <1>7 DEF NoticeInv

-----------------------------------------------------------------------------
LEMMA HandlerKeeps ==
  ASSUME NoticeInv, NEW s \in Schedulers,
         HandlerStep(s) \/ AddFails(s) \/ HandlerFails(s) \/ SchedulerCrash(s)
  PROVE  NoticeInv'
<1>. USE DEF user, handler, queue, worker, noticeHistory
<1>1. NoticeTypes'
  BY HandlerTypes DEF NoticeInv
<1>2. /\ Len(plan) \in Nat /\ 1 <= Len(plan) /\ at[s] \in 1..Len(plan)
      /\ Ref(s) \in References /\ \A i \in 1..Len(plan) : plan[i] \in References
  BY PlanFacts DEF NoticeInv, NoticeTypes
<1>3. /\ email \in [References -> EmailStates] /\ declined \in [References -> BOOLEAN]
      /\ orphaned \in [References -> BOOLEAN] /\ unsure \in [References -> BOOLEAN]
      /\ job \in [References -> {"absent", "waiting", "active", "completed", "failed"}]
      /\ pc[s] \in {"idle", "user", "lookup", "create", "add", "addFailed", "return"}
      /\ DOMAIN pc = Schedulers /\ DOMAIN at = Schedulers
  BY DEF NoticeInv, NoticeTypes
<1>4. HandlerHolds(s) /\ DoneMeansNotified
  BY DEF NoticeInv
<1>. DEFINE Grows == \A r \in References : Told(r) => Told(r)'
            Mine == \A t \in Schedulers : t # s => pc'[t] = pc[t] /\ at'[t] = at[t]
            ToldNow == email'[Ref(s)] # "none" \/ declined'[Ref(s)]
\* Where the handler may go.
<1>go. ASSUME NEW p, HandlerGoes(s, p) PROVE Mine /\ pc'[s] = p /\ at'[s] = at[s]
  BY <1>go, <1>3 DEF HandlerGoes
<1>onward. ASSUME Onward(s), plan' = plan, Grows, ToldNow
           PROVE  Mine /\ HandlerHolds(s)' /\ ~Adding(s)'
  <2>1. CASE at[s] < Len(plan)
    <3>1. Mine /\ pc'[s] = "user" /\ at'[s] = at[s] + 1
      BY <1>onward, <1>3, <2>1 DEF Onward
    <3>2. ASSUME NEW i \in 1..Len(plan), i < at[s] + 1 PROVE Told(plan[i])'
      <4>1. CASE i < at[s]
        BY <1>onward, <1>2, <1>4, <4>1 DEF HandlerHolds
      <4>2. CASE i = at[s]
        BY <1>onward, <4>2 DEF Told, Ref
      <4>. QED BY <1>2, <3>2, <4>1, <4>2
    <3>. QED BY <1>onward, <3>1, <3>2 DEF HandlerHolds, Adding
  <2>2. CASE ~ (at[s] < Len(plan))
    <3>1. Mine /\ pc'[s] = "return" /\ at'[s] = at[s]
      BY <1>onward, <1>go, <2>2 DEF Onward
    <3>2. ASSUME NEW i \in 1..Len(plan) PROVE Told(plan[i])'
      <4>1. CASE i < at[s]
        BY <1>onward, <1>2, <1>4, <4>1 DEF HandlerHolds
      <4>2. CASE i = at[s]
        BY <1>onward, <4>2 DEF Told, Ref
      <4>. QED BY <1>2, <2>2, <4>1, <4>2
    <3>. QED BY <1>onward, <3>1, <3>2 DEF HandlerHolds, Adding
  <2>. QED BY <2>1, <2>2
<1>leave. ASSUME Leave(s), plan' = plan PROVE Mine /\ HandlerHolds(s)' /\ ~Adding(s)'
  <2>1. Mine /\ pc'[s] = "idle" /\ at'[s] = 1
    BY <1>leave, <1>3 DEF Leave
  <2>2. \A i \in 1..Len(plan) : ~(i < 1)
    BY <1>2
  <2>. QED BY <1>leave, <2>1, <2>2 DEF HandlerHolds, Adding
\* A step after which the handler is still in the same reference.
<1>stay. ASSUME plan' = plan, Grows, at'[s] = at[s], pc[s] # "return", pc'[s] # "return",
                Adding(s)' => /\ email'[Ref(s)] # "none"
                              /\ pc'[s] = "add" \/ ~unsure'[Ref(s)] => job'[Ref(s)] = "absent"
         PROVE  HandlerHolds(s)'
  <2>1. Ref(s)' = Ref(s)
    BY <1>stay DEF Ref
  <2>2. \A i \in 1..Len(plan) : i < at[s] => Told(plan[i])'
    BY <1>stay, <1>2, <1>4 DEF HandlerHolds
  <2>. QED BY <1>stay, <2>1, <2>2 DEF HandlerHolds
<1>done. ASSUME event' = event, swallowed' = swallowed, plan' = plan, Grows PROVE DoneMeansNotified'
  <2>1. \A r \in Planned : r \in References
    BY <1>2 DEF Planned
  <2>. QED BY <1>done, <1>4, <2>1 DEF DoneMeansNotified, Planned, Told
<1>5. CASE Deliver(s)
  <2>1. Mine /\ pc'[s] = "user" /\ at'[s] = 1 /\ pc[s] = "idle"
    BY <1>3, <1>5 DEF Deliver
  <2>2. Grows /\ DoneMeansNotified'
    BY <1>done, <1>5 DEF Deliver, Told
  <2>3. HandlerHolds(s)' /\ ~Adding(s)' /\ ~Adding(s)
    <3>1. \A i \in 1..Len(plan) : ~(i < 1)
      BY <1>2
    <3>. QED BY <1>5, <2>1, <3>1 DEF HandlerHolds, Adding, Deliver
  <2>. QED BY <1>1, <1>5, <2>1, <2>2, <2>3, HandlerFrame DEF Deliver
<1>6. CASE LoadUser(s)
  <2>1. Grows
    BY <1>3, <1>6 DEF LoadUser, Told
  <2>2. Mine /\ HandlerHolds(s)' /\ ~Adding(s)'
    <3>1. CASE Unwanted(Ref(s))
      <4>1. ToldNow
        BY <1>2, <1>3, <1>6, <3>1 DEF LoadUser, Told
      <4>. QED BY <1>6, <1>onward, <2>1, <3>1, <4>1 DEF LoadUser
    <3>2. CASE ~Unwanted(Ref(s))
      <4>1. HandlerGoes(s, "lookup")
        BY <1>6, <3>2 DEF LoadUser
      <4>. QED BY <1>6, <1>go, <1>stay, <2>1, <4>1 DEF LoadUser, Adding
    <3>. QED BY <3>1, <3>2
  <2>3. DoneMeansNotified' /\ ~Adding(s)
    BY <1>6, <1>done, <2>1 DEF LoadUser, Adding
  <2>4. \A r \in References : declined[r] => declined'[r]
    BY <1>3, <1>6 DEF LoadUser
  <2>. QED BY <1>1, <1>6, <2>2, <2>3, <2>4, HandlerFrame DEF LoadUser
<1>7. CASE Lookup(s)
  <2>1. Grows
    BY <1>7 DEF Lookup, Told
  <2>2. Mine /\ HandlerHolds(s)' /\ ~Adding(s)'
    <3>1. CASE email[Ref(s)] # "none"
      BY <1>2, <1>7, <1>onward, <2>1, <3>1 DEF Lookup, Told
    <3>2. CASE email[Ref(s)] = "none"
      <4>1. HandlerGoes(s, "create")
        BY <1>7, <3>2 DEF Lookup
      <4>. QED BY <1>7, <1>go, <1>stay, <2>1, <4>1 DEF Lookup, Adding
    <3>. QED BY <3>1, <3>2
  <2>3. DoneMeansNotified' /\ ~Adding(s)
    BY <1>7, <1>done, <2>1 DEF Lookup, Adding
  <2>. QED BY <1>1, <1>7, <2>2, <2>3, HandlerFrame DEF Lookup
<1>8. CASE Create(s)
  <2>0. want[s] \in {"PENDING", "SKIPPED_PREFERENCE", "NOT_CONFIGURED"}
    BY DEF NoticeInv, NoticeTypes
  <2>1. Grows
    BY <1>3, <1>8, <2>0 DEF Create, Told
  <2>2. CASE email[Ref(s)] = "none"
    <3>1. /\ email'[Ref(s)] = want[s]
          /\ \A r \in References : r # Ref(s) => email'[r] = email[r]
      BY <1>2, <1>3, <1>8, <2>2 DEF Create
    <3>2. CASE want[s] = "PENDING"
      <4>1. HandlerGoes(s, "add")
        BY <1>8, <2>2, <3>2 DEF Create
      <4>2. job[Ref(s)] = "absent"
        BY <1>2, <2>2 DEF NoticeInv, JobHolds
      <4>3. Mine /\ pc'[s] = "add" /\ at'[s] = at[s] /\ HandlerHolds(s)'
        BY <1>8, <1>go, <1>stay, <2>1, <3>1, <3>2, <4>1, <4>2 DEF Create
      <4>4. DoneMeansNotified' /\ Adding(s)' /\ ~Adding(s)
        BY <1>8, <1>done, <2>1, <4>3 DEF Create, Adding
      <4>. QED BY <1>1, <1>8, <2>2, <3>1, <3>2, <4>3, <4>4, HandlerFrame DEF Create
    <3>3. CASE want[s] # "PENDING"
      <4>1. ToldNow
        BY <2>0, <3>1, <1>8 DEF Create, Told
      <4>2. Mine /\ HandlerHolds(s)' /\ ~Adding(s)'
        BY <1>8, <1>onward, <2>1, <2>2, <3>3, <4>1 DEF Create
      <4>3. DoneMeansNotified' /\ ~Adding(s)
        BY <1>8, <1>done, <2>1 DEF Create, Adding
      <4>. QED BY <1>1, <1>8, <2>0, <2>2, <3>1, <3>3, <4>2, <4>3, HandlerFrame DEF Create
    <3>. QED BY <3>2, <3>3
  <2>3. CASE email[Ref(s)] # "none"
    <3>1. Mine /\ HandlerHolds(s)' /\ ~Adding(s)'
      BY <1>2, <1>8, <1>onward, <2>1, <2>3 DEF Create, Told
    <3>2. DoneMeansNotified' /\ ~Adding(s)
      BY <1>8, <1>done, <2>1 DEF Create, Adding
    <3>. QED BY <1>1, <1>8, <2>3, <3>1, <3>2, HandlerFrame DEF Create
  <2>. QED BY <2>2, <2>3
<1>9. CASE Add(s) \/ AddFails(s)
  <2>1. /\ email' = email /\ declined' = declined /\ event' = event /\ swallowed' = swallowed
        /\ plan' = plan /\ pc[s] = "add" /\ orphaned' = orphaned
        /\ gone' = gone /\ wpc' = wpc /\ copy' = copy /\ outcome' = outcome /\ sent' = sent /\ lost' = lost
    BY <1>9 DEF Add, AddFails
  <2>2. job[Ref(s)] = "absent" /\ email[Ref(s)] # "none"
    BY <1>4, <2>1 DEF HandlerHolds, Adding
  <2>3. Grows /\ DoneMeansNotified' /\ Adding(s)
    BY <1>done, <2>1 DEF Told, Adding
  <2>4. ASSUME AddJob(Ref(s))
        PROVE  /\ job'[Ref(s)] = "waiting"
               /\ \A r \in References : r # Ref(s) => job'[r] = job[r]
    BY <1>2, <1>3, <2>2, <2>4 DEF AddJob
  <2>5. CASE Add(s)
    <3>1. Mine /\ HandlerHolds(s)' /\ ~Adding(s)'
      BY <1>2, <1>onward, <2>1, <2>2, <2>3, <2>5 DEF Add, Told
    <3>. QED BY <1>1, <2>1, <2>2, <2>3, <2>4, <2>5, <3>1, HandlerFrame DEF Add
  <2>6. CASE AddFails(s)
    <3>1. Mine /\ pc'[s] = "addFailed" /\ at'[s] = at[s] /\ Adding(s)'
      BY <1>go, <2>6 DEF AddFails, Adding
    <3>2. \A r \in References : unsure[r] => unsure'[r]
      BY <1>3, <2>6 DEF AddFails
    <3>3. CASE job' = job
      <4>1. HandlerHolds(s)'
        BY <1>stay, <2>1, <2>2, <2>3, <3>1, <3>3
      <4>. QED BY <1>1, <2>1, <2>3, <3>1, <3>2, <3>3, <4>1, HandlerFrame
    <3>4. CASE AddJob(Ref(s)) /\ unsure' = [unsure EXCEPT ![Ref(s)] = TRUE]
      <4>1. unsure'[Ref(s)]
        BY <1>2, <1>3, <3>4
      <4>2. HandlerHolds(s)'
        BY <1>stay, <2>1, <2>2, <2>3, <3>1, <4>1
      <4>. QED BY <1>1, <2>1, <2>2, <2>3, <2>4, <3>1, <3>2, <3>4, <4>2, HandlerFrame
    <3>. QED BY <2>6, <3>3, <3>4 DEF AddFails
  <2>. QED BY <1>9, <2>5, <2>6
<1>10. CASE SaveAddFailed(s)
  <2>1. /\ email'[Ref(s)] = "FAILED" /\ \A r \in References : r # Ref(s) => email'[r] = email[r]
    BY <1>2, <1>3, <1>10 DEF SaveAddFailed, RecordFailure
  <2>2. Grows /\ ToldNow
    BY <1>10, <2>1 DEF Told, SaveAddFailed
  <2>3. Mine /\ HandlerHolds(s)' /\ ~Adding(s)' /\ DoneMeansNotified'
    BY <1>10, <1>onward, <1>done, <2>2 DEF SaveAddFailed
  <2>. QED BY <1>1, <1>10, <2>1, <2>3, HandlerFrame DEF SaveAddFailed
<1>11. CASE Acknowledge(s)
  <2>1. Mine /\ HandlerHolds(s)' /\ ~Adding(s)' /\ ~Adding(s)
    BY <1>11, <1>leave DEF Acknowledge, Adding
  <2>2. \A i \in 1..Len(plan) : Told(plan[i])
    BY <1>4, <1>11 DEF HandlerHolds, Acknowledge
  <2>3. DoneMeansNotified'
    BY <1>11, <2>2 DEF Acknowledge, DoneMeansNotified, Planned, Told
  <2>. QED BY <1>1, <1>11, <2>1, <2>3, HandlerFrame DEF Acknowledge
<1>12. CASE HandlerFails(s) \/ SchedulerCrash(s)
  <2>1. /\ Leave(s) /\ Orphan(s)
        /\ UNCHANGED <<plan, email, gone, job, wpc, copy, outcome, sent, lost, declined, unsure>>
    BY <1>12 DEF HandlerFails, SchedulerCrash
  <2>2. Mine /\ HandlerHolds(s)' /\ ~Adding(s)' /\ Grows
    BY <1>leave, <2>1 DEF Told
  <2>3. /\ \A r \in References : orphaned[r] => orphaned'[r]
        /\ Adding(s) => orphaned'[Ref(s)]
    BY <1>2, <1>3, <2>1 DEF Orphan, Adding
  <2>4. DoneMeansNotified'
    <3>1. CASE event' = event /\ swallowed' = swallowed
      BY <1>done, <2>1, <2>2, <3>1
    <3>2. CASE swallowed'
      BY <3>2 DEF DoneMeansNotified
    <3>3. (event' = event /\ swallowed' = swallowed) \/ swallowed'
      BY <1>12, NotificationsAssumption DEF HandlerFails, SchedulerCrash, NoticeInv, NoticeTypes
    <3>. QED BY <3>1, <3>2, <3>3
  <2>. QED BY <1>1, <2>1, <2>2, <2>3, <2>4, HandlerFrame
<1>. QED BY <1>5, <1>6, <1>7, <1>8, <1>9, <1>10, <1>11, <1>12 DEF HandlerStep

LEMMA WorkerKeeps ==
  ASSUME NoticeInv, NEW r \in References, WorkerStep(r) \/ WorkerFails(r) \/ WorkerCrash(r)
  PROVE  NoticeInv'
<1>. USE DEF user, handler, queue, worker, noticeHistory
<1>1. NoticeTypes'
  BY MailWorkerTypes DEF NoticeInv
<1>2. JobHolds(r) /\ SentHolds(r) /\ PendingHolds(r)
  BY DEF NoticeInv
<1>3. /\ email \in [References -> EmailStates] /\ copy \in [References -> EmailStates]
      /\ job \in [References -> {"absent", "waiting", "active", "completed", "failed"}]
      /\ wpc \in [References -> {"idle", "load", "user", "skip", "send", "save", "raise", "end"}]
      /\ outcome \in [References -> {"none", "SENT", "NOT_CONFIGURED", "FAILED"}]
      /\ sent \in [References -> Nat] /\ lost \in [References -> Nat]
  BY DEF NoticeInv, NoticeTypes
<1>4. job[r] # "absent" /\ email[r] # "none"
  <2>1. job[r] = "waiting" \/ wpc[r] # "idle"
    BY DEF WorkerStep, TakeJob, LoadNotification, CheckUser, SaveSkip, Send, SaveOutcome, CompleteJob,
           RaiseUnavailable, WorkerFails, WorkerCrash
  <2>. QED BY <1>2, <2>1 DEF JobHolds
<1>. DEFINE Others == \A q \in References : q # r =>
              /\ email'[q] = email[q] /\ job'[q] = job[q] /\ wpc'[q] = wpc[q] /\ copy'[q] = copy[q]
              /\ outcome'[q] = outcome[q] /\ sent'[q] = sent[q] /\ lost'[q] = lost[q]
            Rest == UNCHANGED <<event, plan, gone, pc, at, declined, orphaned, unsure, swallowed>>
\* The job ends, or is put back, with the mail as it is.
<1>end. ASSUME NEW x \in {"waiting", "completed", "failed"}, Finish(r, x), Rest, email' = email, sent' = sent,
               (lost'[r] = lost[r] /\ ~JustSent(r)) \/ lost'[r] = lost[r] + 1,
               \A q \in References : q # r => lost'[q] = lost[q],
               x = "completed" => email[r] # "PENDING" \/ gone
        PROVE  NoticeInv'
  <2>1. /\ Others /\ wpc'[r] = "idle" /\ job'[r] = x
    BY <1>end, <1>3 DEF Finish
  <2>2. JobHolds(r)' /\ ~Holding(r)' /\ ~JustSent(r)'
    BY <1>end, <1>2, <1>4, <2>1 DEF JobHolds, Holding, JustSent
  <2>3. SentHolds(r)'
    BY <1>end, <1>2, <1>3, <2>2 DEF SentHolds
  <2>. QED BY <1>end, <1>1, <1>4, <2>1, <2>2, <2>3, WorkerFrame
<1>5. CASE TakeJob(r)
  <2>1. /\ Others /\ Rest /\ wpc'[r] = "load" /\ job'[r] = "active" /\ job[r] = "waiting"
        /\ email' = email /\ sent' = sent /\ lost' = lost
    BY <1>3, <1>5 DEF TakeJob, WorkerGoes
  <2>2. wpc[r] = "idle"
    BY <1>2, <1>3, <2>1 DEF JobHolds
  <2>3. JobHolds(r)' /\ ~Holding(r)' /\ ~JustSent(r)' /\ ~JustSent(r)
    BY <1>2, <1>4, <2>1, <2>2 DEF JobHolds, Holding, JustSent
  <2>4. SentHolds(r)'
    BY <1>2, <2>1, <2>3 DEF SentHolds
  <2>. QED BY <1>1, <1>4, <2>1, <2>3, <2>4, WorkerFrame
<1>6. CASE LoadNotification(r)
  <2>1. /\ Others /\ Rest /\ copy'[r] = email[r] /\ job' = job /\ wpc[r] = "load"
        /\ wpc'[r] = IF Settled(email[r]) THEN "end" ELSE "user"
        /\ email' = email /\ sent' = sent /\ lost' = lost /\ outcome' = outcome
    BY <1>3, <1>6 DEF LoadNotification, WorkerGoes
  <2>2. JobHolds(r)' /\ ~JustSent(r)' /\ ~JustSent(r)
    BY <1>2, <1>4, <2>1 DEF JobHolds, Holding, JustSent, Settled
  <2>3. SentHolds(r)'
    BY <1>2, <2>1, <2>2 DEF SentHolds
  <2>4. wpc'[r] = "end" \/ job'[r] = "completed" => email'[r] # "PENDING" \/ gone
    BY <1>2, <2>1 DEF JobHolds, Settled
  <2>. QED BY <1>1, <1>4, <2>1, <2>2, <2>3, <2>4, WorkerFrame
<1>7. CASE CheckUser(r)
  <2>1. /\ Others /\ Rest /\ copy' = copy /\ job' = job /\ wpc[r] = "user"
        /\ \/ wpc'[r] = "end" /\ gone
           \/ wpc'[r] \in {"skip", "send"}
        /\ email' = email /\ sent' = sent /\ lost' = lost /\ outcome' = outcome
    BY <1>3, <1>7 DEF CheckUser, WorkerGoes
  <2>2. JobHolds(r)' /\ ~JustSent(r)' /\ ~JustSent(r)
    BY <1>2, <1>4, <2>1 DEF JobHolds, Holding, JustSent
  <2>3. SentHolds(r)'
    BY <1>2, <2>1, <2>2 DEF SentHolds
  <2>4. /\ Holding(r)' /\ copy'[r] # "PENDING" => email'[r] # "PENDING"
        /\ wpc'[r] = "end" \/ job'[r] = "completed" => email'[r] # "PENDING" \/ gone
    BY <1>2, <2>1 DEF JobHolds, PendingHolds, Holding
  <2>. QED BY <1>1, <1>4, <2>1, <2>2, <2>3, <2>4, WorkerFrame
<1>8. CASE SaveSkip(r)
  <2>1. /\ Others /\ Rest /\ copy' = copy /\ job' = job /\ wpc[r] = "skip" /\ wpc'[r] = "end"
        /\ email'[r] = "SKIPPED_PREFERENCE" /\ sent' = sent /\ lost' = lost /\ outcome' = outcome
    BY <1>3, <1>8 DEF SaveSkip, WorkerGoes
  <2>2. JobHolds(r)' /\ ~JustSent(r)' /\ ~JustSent(r) /\ ~Holding(r)' /\ email[r] # "SENT"
    BY <1>2, <1>4, <2>1 DEF JobHolds, Holding, JustSent
  <2>3. SentHolds(r)'
    BY <1>2, <2>1, <2>2 DEF SentHolds
  <2>. QED BY <1>1, <1>4, <2>1, <2>2, <2>3, WorkerFrame
<1>9. CASE Send(r)
  <2>1. /\ Others /\ Rest /\ copy' = copy /\ job' = job /\ wpc[r] = "send" /\ wpc'[r] = "save" /\ email' = email
        /\ \/ outcome'[r] = "SENT" /\ sent'[r] = sent[r] + 1 /\ lost'[r] = lost[r]
           \/ outcome'[r] \in {"NOT_CONFIGURED", "FAILED"} /\ sent'[r] = sent[r] /\ lost'[r] = lost[r]
           \/ outcome'[r] = "FAILED" /\ sent'[r] = sent[r] + 1 /\ lost'[r] = lost[r] + 1
    <3>1. wpc[r] = "send" /\ wpc'[r] = "save" /\ \A q \in References : q # r => wpc'[q] = wpc[q]
      BY <1>3, <1>9 DEF Send, WorkerGoes
    <3>2. Rest /\ copy' = copy /\ job' = job /\ email' = email
      BY <1>9 DEF Send
    <3>3. /\ \A q \in References : q # r =>
               outcome'[q] = outcome[q] /\ sent'[q] = sent[q] /\ lost'[q] = lost[q]
          /\ \/ outcome'[r] = "SENT" /\ sent'[r] = sent[r] + 1 /\ lost'[r] = lost[r]
             \/ outcome'[r] \in {"NOT_CONFIGURED", "FAILED"} /\ sent'[r] = sent[r] /\ lost'[r] = lost[r]
             \/ outcome'[r] = "FAILED" /\ sent'[r] = sent[r] + 1 /\ lost'[r] = lost[r] + 1
      BY <1>3, <1>9 DEF Send, Unconfigured
    <3>. QED BY <3>1, <3>2, <3>3
  <2>2. JobHolds(r)' /\ ~JustSent(r) /\ (JustSent(r)' <=> outcome'[r] = "SENT") /\ email[r] # "SENT"
    BY <1>2, <1>4, <2>1 DEF JobHolds, Holding, JustSent
  <2>3. SentHolds(r)'
    BY <1>2, <1>3, <2>1, <2>2 DEF SentHolds
  <2>4. /\ Holding(r)' /\ copy'[r] # "PENDING" => email'[r] # "PENDING"
        /\ job'[r] # "completed"
    BY <1>2, <2>1 DEF JobHolds, PendingHolds, Holding
  <2>. QED BY <1>1, <1>4, <2>1, <2>2, <2>3, <2>4, WorkerFrame
<1>10. CASE SaveOutcome(r)
  <2>1. /\ Others /\ Rest /\ copy' = copy /\ job' = job /\ wpc[r] = "save" /\ sent' = sent /\ lost' = lost
        /\ outcome' = outcome
        /\ wpc'[r] = IF outcome[r] = "FAILED" THEN "raise" ELSE "end"
        /\ email'[r] = IF outcome[r] # copy[r] THEN outcome[r] ELSE email[r]
    BY <1>3, <1>10 DEF SaveOutcome, WorkerGoes
  <2>2. /\ email[r] # "SENT" /\ copy[r] # "SENT" /\ outcome[r] \in {"SENT", "NOT_CONFIGURED", "FAILED"}
        /\ (copy[r] # "PENDING" => email[r] # "PENDING")
    BY <1>2, <1>3, <2>1 DEF JobHolds, PendingHolds, Holding, Settled
  <2>3. JobHolds(r)' /\ ~JustSent(r)' /\ ~Holding(r)' /\ job[r] # "completed"
    BY <1>2, <1>4, <2>1, <2>2 DEF JobHolds, Holding, JustSent
  <2>4. email'[r] = "SENT" <=> JustSent(r)
    BY <2>1, <2>2 DEF JustSent
  <2>5. SentHolds(r)'
    BY <1>2, <2>1, <2>2, <2>3, <2>4 DEF SentHolds
  <2>. QED BY <1>1, <1>4, <2>1, <2>2, <2>3, <2>5, WorkerFrame
<1>11. CASE CompleteJob(r)
  <2>1. email[r] # "PENDING" \/ gone
    BY <1>2, <1>11 DEF PendingHolds, CompleteJob
  <2>. QED BY <1>end, <1>11, <2>1 DEF CompleteJob, JustSent
<1>12. ASSUME FailJob(r)
       PROVE  /\ \E x \in {"waiting", "failed"} : Finish(r, x)
              /\ UNCHANGED <<event, plan, email, gone, pc, at>>
  BY <1>12 DEF FailJob
<1>13. CASE RaiseUnavailable(r)
  <2>1. PICK x \in {"waiting", "failed"} : Finish(r, x)
    BY <1>12, <1>13 DEF RaiseUnavailable
  <2>. QED BY <1>end, <1>12, <1>13, <2>1 DEF RaiseUnavailable, JustSent
<1>14. CASE WorkerFails(r) \/ WorkerCrash(r)
  <2>1. PICK x \in {"waiting", "failed"} : Finish(r, x)
    BY <1>12, <1>14 DEF WorkerFails, WorkerCrash
  <2>2. Rest /\ email' = email /\ sent' = sent /\ LoseSent(r)
    BY <1>12, <1>14 DEF WorkerFails, WorkerCrash
  <2>3. /\ (lost'[r] = lost[r] /\ ~JustSent(r)) \/ lost'[r] = lost[r] + 1
        /\ \A q \in References : q # r => lost'[q] = lost[q]
    BY <1>3, <2>2 DEF LoseSent, JustSent
  <2>. QED BY <1>end, <2>1, <2>2, <2>3
<1>. QED BY <1>5, <1>6, <1>7, <1>8, <1>9, <1>10, <1>11, <1>13, <1>14 DEF WorkerStep

LEMMA UserKeeps == NoticeInv /\ (TurnOff \/ DeleteUser \/ UNCHANGED noticeVars) => NoticeInv'
<1>. SUFFICES ASSUME NoticeInv, TurnOff \/ DeleteUser \/ UNCHANGED noticeVars
              PROVE  NoticeInv'
  OBVIOUS
<1>. USE DEF user, handler, queue, worker, noticeHistory
<1>1. /\ UNCHANGED <<event, plan, email, configured, pc, at, want, job, failures, stalls, wpc, copy, outcome,
                     sent, lost, declined, orphaned, unsure, swallowed, faults>>
      /\ gone => gone'
  BY DEF TurnOff, DeleteUser, noticeVars
<1>2. NoticeTypes'
  <2>1. gone' \in BOOLEAN
    BY DEF TurnOff, DeleteUser, noticeVars, NoticeInv, NoticeTypes
  <2>2. wants' \in [mail : BOOLEAN, category : [References -> BOOLEAN]]
    <3>1. wants \in [mail : BOOLEAN, category : [References -> BOOLEAN]]
      BY DEF NoticeInv, NoticeTypes
    <3>2. \/ wants' = wants
          \/ wants' = [wants EXCEPT !.mail = FALSE]
          \/ \E r \in References : wants' = [wants EXCEPT !.category[r] = FALSE]
      BY DEF TurnOff, DeleteUser, noticeVars
    <3>. QED BY <3>1, <3>2
  <2>. QED BY <1>1, <2>1, <2>2 DEF NoticeInv, NoticeTypes
<1>3. /\ \A s \in Schedulers : HandlerHolds(s)'
      /\ OneAdds' /\ DoneMeansNotified'
  BY <1>1 DEF NoticeInv, HandlerHolds, OneAdds, DoneMeansNotified, Told, Adding, Ref, Planned
<1>4. \A r \in References : JobHolds(r)' /\ SentHolds(r)'
  BY <1>1 DEF NoticeInv, JobHolds, SentHolds, Holding, JustSent
<1>5. \A r \in References : PendingHolds(r)'
  BY <1>1 DEF NoticeInv, PendingHolds, Holding, Adding, Ref
<1>. QED BY <1>2, <1>3, <1>4, <1>5 DEF NoticeInv

LEMMA NoticeInvariant == NoticeSpec => []NoticeInv
<1>1. NoticeInv /\ [NoticeNext]_noticeVars => NoticeInv'
  BY HandlerKeeps, WorkerKeeps, UserKeeps DEF NoticeNext
<1>. QED BY <1>1, NoticeInitially, PTL DEF NoticeSpec

\* "Verification completion and failure events create retry-safe notifications"
\* (docs/notifications.md:25): an event is handled only when each notification of its
\* handler is stored or was unwanted, for any number of schedulers, crashes and faults.
THEOREM EventsAreTold == NoticeSpec => []DoneMeansNotified
<1>. QED BY NoticeInvariant, PTL DEF NoticeInv

\* A mail is sent as often as the record can show and does not stay PENDING
\* (docs/notifications.md:9, :25), for any number of schedulers, crashes and faults.
THEOREM MailsSettle == NoticeSpec => []MailSettles
<1>1. NoticeInv => MailSettles
  <2>. SUFFICES ASSUME NoticeInv PROVE MailSettles
    OBVIOUS
  <2>1. NoNeedlessMail
    BY DEF NoticeInv, NoticeTypes, SentHolds, NoNeedlessMail
  <2>2. EmailSettles
    <3>. SUFFICES ASSUME AtRest, NEW r \in References, email[r] = "PENDING"
                  PROVE  job[r] = "failed" \/ orphaned[r] \/ gone
      BY DEF EmailSettles
    <3>1. job[r] \in {"absent", "completed", "failed"}
      BY DEF AtRest, NoticeInv, NoticeTypes, JobHolds
    <3>2. \A s \in Schedulers : ~Adding(s)
      BY DEF AtRest, Adding
    <3>. QED BY <3>1, <3>2 DEF NoticeInv, PendingHolds
  <2>. QED BY <2>1, <2>2 DEF MailSettles
<1>. QED BY <1>1, NoticeInvariant, PTL

\* "an unavailable provider is never reported as a successful delivery"
\* (docs/notifications.md:9): SENT is said of a mail that was sent, and no step takes it
\* back but that of a scheduler that got the queue's answer wrong.
THEOREM SentStands == NoticeSpec => SentIsTrueAndFinal
<1>1. ASSUME NoticeInv, NoticeInv', [NoticeNext]_noticeVars, NEW r \in References, email[r] = "SENT"
      PROVE  sent[r] > 0 /\ (email'[r] = "SENT" \/ unsure[r])
  <2>1. SentHolds(r) /\ JobHolds(r) /\ email \in [References -> EmailStates] /\ sent[r] \in Nat
    BY <1>1 DEF NoticeInv, NoticeTypes
  <2>2. sent[r] > 0 /\ job[r] # "absent"
    BY <1>1, <2>1 DEF SentHolds, JobHolds
  <2>3. ASSUME email' # email PROVE email'[r] = "SENT" \/ unsure[r]
    <3>1. CASE \E s \in Schedulers : HandlerStep(s) \/ AddFails(s) \/ HandlerFails(s) \/ SchedulerCrash(s)
      <4>1. PICK s \in Schedulers : Create(s) \/ SaveAddFailed(s)
        BY <2>3, <3>1 DEF HandlerStep, Deliver, LoadUser, Lookup, Add, Acknowledge, AddFails,
                          HandlerFails, SchedulerCrash
      <4>2. HandlerHolds(s) /\ Ref(s) \in References
        BY <1>1, PlanFacts DEF NoticeInv
      <4>3. CASE Create(s)
        BY <1>1, <2>1, <4>2, <4>3 DEF Create
      <4>4. CASE SaveAddFailed(s)
        BY <1>1, <2>1, <2>2, <4>2, <4>4 DEF SaveAddFailed, RecordFailure, HandlerHolds, Adding
      <4>. QED BY <4>1, <4>3, <4>4
    <3>2. CASE \E q \in References : WorkerStep(q) \/ WorkerFails(q) \/ WorkerCrash(q)
      <4>1. PICK q \in References : SaveSkip(q) \/ SaveOutcome(q)
        BY <2>3, <3>2 DEF WorkerStep, TakeJob, LoadNotification, CheckUser, Send, CompleteJob,
                          RaiseUnavailable, WorkerFails, WorkerCrash, FailJob
      <4>2. Holding(q)
        BY <4>1 DEF Holding, SaveSkip, SaveOutcome
      <4>3. q # r
        BY <1>1, <2>1, <4>2 DEF JobHolds
      <4>. QED BY <1>1, <2>1, <4>1, <4>3 DEF SaveSkip, SaveOutcome
    <3>. QED BY <1>1, <2>3, <3>1, <3>2 DEF NoticeNext, TurnOff, DeleteUser, noticeVars
  <2>. QED BY <1>1, <2>2, <2>3
<1>2. NoticeInv /\ NoticeInv' /\ [NoticeNext]_noticeVars
        => [\A r \in References :
              email[r] = "SENT" => sent[r] > 0 /\ (email'[r] = "SENT" \/ unsure[r])]_noticeVars
  BY <1>1
<1>. QED BY <1>2, NoticeInvariant, PTL DEF NoticeSpec, SentIsTrueAndFinal
=============================================================================
