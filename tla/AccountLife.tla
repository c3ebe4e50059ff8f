----------------------------- MODULE AccountLife -----------------------------
(***************************************************************************)
(* The life of one account: sessions, self-deletion with its grace window  *)
(* (ADR 0017), admin soft-delete and restore (ADR 0016), relogin, and the  *)
(* nightly purge, with the account's Routes (RouteRecord) underneath.      *)
(*                                                                         *)
(* A request runs its statements one at a time; others run in between, and *)
(* the process may stop after any of them.  An entity is flushed by the    *)
(* columns its request changed, so a request overwrites what it did not    *)
(* read only where it meant to.                                            *)
(***************************************************************************)
EXTENDS RouteRecord

CONSTANTS
  Handlers,    \* API requests in flight at once
  Sessions,    \* ids of session rows
  FirstRoute, FirstGeometry, FirstSession,  \* what the account starts with
  Grace,       \* SELF_DELETE_GRACE_DAYS
  MaxTime,     \* bound on the days that pass
  MaxOps       \* bound on the requests made and on what cuts them short

ASSUME AccountLifeAssumption ==
  /\ Grace \in Nat /\ MaxTime \in Nat /\ MaxOps \in Nat
  /\ MaxJobs \in Nat /\ None \notin Routes \cup Sources \cup (0 .. MaxTime)
  /\ FirstRoute \in Routes /\ FirstGeometry \in Geometries /\ FirstSession \in Sessions
  /\ StartOf \in [Geometries -> {StartOf[g] : g \in Geometries}]

VARIABLES
  account,   \* the user row: exists, deleted (deleted_at), pending, asked
  sessions,  \* [Sessions -> "unused", "live" or "revoked"]
  request,   \* [Handlers -> Request or Idle]
  purge,     \* hardDeleteExpiredAccounts: "idle" or "erasing"
  day,       \* the date
  \* history and bounds
  apart,     \* Routes inserted, deleted or restored one at a time since the
             \* last statement that took all of the account's Routes along
  cut,       \* a deletion or restore was cut short or overlapped another one
  ops

accountVars == <<account, sessions, purge, day, apart, cut>>
vars == <<recordVars, accountVars, request, ops>>

Days == 0 .. MaxTime
Account == [exists: BOOLEAN, deleted: BOOLEAN, pending: BOOLEAN, asked: Days \cup {None}]

Operations == {"remove", "cancelDeletion", "googleAuth", "login", "softDeleteUser",
               "restoreUser", "create", "update"}
Steps == {"findRoutes", "hideRoutes", "restoreRoutes", "reviveUser", "flushUser", "readSessions",
          "revokeSessions", "createSession", "insertRoute", "flushRoute", "end"}

\* A request: its next statement, the user it loaded and when, the rows it
\* found, what it was sent; old holds the sessions live when it deleted the
\* user (history).
Request == [op: Operations, at: Steps, user: Account, since: Days, found: SUBSET Routes,
            sessions: SUBSET Sessions, old: SUBSET Sessions,
            route: Routes \cup {None}, loaded: Row, sent: Geometries \cup {None}]
Idle == [op |-> "none"]

TypeOK ==
  /\ RecordTypeOK
  /\ account \in Account
  /\ sessions \in [Sessions -> {"unused", "live", "revoked"}]
  /\ request \in [Handlers -> Request \cup {Idle}]
  /\ purge \in {"idle", "erasing"}
  /\ day \in Days
  /\ apart \subseteq Routes
  /\ cut \in BOOLEAN
  /\ ops \in 0 .. MaxOps

NewRow == [state |-> "unused", geometry |-> FirstGeometry,
           derived |-> [k \in Kinds |-> None]]

\* A signed-in account with one Route, both of whose columns are derived.
Init ==
  /\ account = [exists |-> TRUE, deleted |-> FALSE, pending |-> FALSE, asked |-> None]
  /\ routes = [r \in Routes |->
       IF r = FirstRoute THEN [NewRow EXCEPT !.state = "live",
                                             !.derived = [k \in Kinds |-> Source(k, FirstGeometry)]]
       ELSE NewRow]
  /\ sessions = [s \in Sessions |-> IF s = FirstSession THEN "live" ELSE "unused"]
  /\ job = [k \in Kinds |-> [i \in 1 .. MaxJobs |-> NoJob]] /\ missed = {}
  /\ request = [h \in Handlers |-> Idle]
  /\ purge = "idle" /\ day = 0 /\ apart = {} /\ cut = FALSE
  /\ ops = 0

------------------------------------------------------------------------------
(* Requests *)

\* resolveAuthenticatedUser: a session that was not revoked, of a user that
\* is not deleted.
Authenticated == /\ account.exists /\ ~account.deleted
                 /\ \E s \in Sessions : sessions[s] = "live"

\* A deletion or a restore of the account, which writes user and Routes.
Writer(r) == \/ r.op \in {"remove", "cancelDeletion", "softDeleteUser", "restoreUser"}
             \/ r.op = "googleAuth" /\ r.user.deleted
WriterInFlight == \E h \in Handlers : Writer(request[h])

Loaded(op, at) ==
  [op |-> op, at |-> at, user |-> account, since |-> day, found |-> {}, sessions |-> {},
   old |-> {}, route |-> None, loaded |-> NewRow, sent |-> None]

\* A save counts for two requests, for the derivations it starts.
Receive(h, req) ==
  /\ request[h] = Idle
  /\ ops' = ops + (IF req.op \in {"create", "update"} THEN 2 ELSE 1) /\ ops' <= MaxOps
  /\ request' = [request EXCEPT ![h] = req]
  /\ cut' = (cut \/ (Writer(req) /\ WriterInFlight))
  /\ UNCHANGED <<recordVars, account, sessions, purge, day, apart>>

\* UsersService.remove, with the user the guard has loaded.
Remove(h) == Authenticated /\ Receive(h, Loaded("remove", "findRoutes"))

\* UsersService.cancelDeletion: nothing to do unless pending.
CancelDeletion(h) ==
  Authenticated /\ account.pending /\ Receive(h, Loaded("cancelDeletion", "flushUser"))

\* AuthService.googleAuth, looking past the softDelete filter: an account an
\* admin deleted is undeleted with its Routes, a pending one is only let in.
GoogleAuth(h) ==
  account.exists /\ Receive(h, Loaded("googleAuth", IF account.deleted THEN "reviveUser" ELSE "createSession"))

\* EmailAuthService.login, past the filter too, changing nothing of the user.
Login(h) == account.exists /\ Receive(h, Loaded("login", "createSession"))

\* AdminService.softDeleteUser and restoreUser.
SoftDeleteUser(h) ==
  account.exists /\ ~account.deleted /\ Receive(h, Loaded("softDeleteUser", "hideRoutes"))
RestoreUser(h) == account.exists /\ Receive(h, Loaded("restoreUser", "restoreRoutes"))

\* RoutesService.create and update, up to the row they load.
Create(h, r, g) ==
  /\ Authenticated /\ routes[r].state = "unused"
  /\ Receive(h, [Loaded("create", "insertRoute") EXCEPT !.route = r, !.sent = g])
Update(h, r, sent) ==
  /\ Authenticated /\ Live(r)
  /\ Receive(h, [Loaded("update", "flushRoute") EXCEPT !.route = r, !.loaded = routes[r], !.sent = sent])

------------------------------------------------------------------------------
(* Their statements *)

At(h, step) == request[h] # Idle /\ request[h].at = step
Goto(h, step) == request' = [request EXCEPT ![h].at = step]
Finish(h) == request' = [request EXCEPT ![h] = Idle]
Deleting(h) == request[h].op \in {"remove", "softDeleteUser"}

\* remove finds the Routes it will hide; the softDelete filter applies.
FindRoutes(h) ==
  /\ At(h, "findRoutes")
  /\ request' = [request EXCEPT ![h].at = "flushUser", ![h].found = {r \in Routes : Live(r)}]
  /\ UNCHANGED <<recordVars, accountVars, ops>>

\* softDeleteUser hides every live Route in one statement.
HideRoutes(h) ==
  /\ At(h, "hideRoutes") /\ Goto(h, "flushUser")
  /\ routes' = SetState({r \in Routes : Live(r)}, "hidden")
  /\ apart' = {r \in apart : ~Live(r)}
  /\ UNCHANGED <<job, missed, account, sessions, purge, day, cut, ops>>

\* undeleteUser, cancelDeletion and restoreUser clear deleted_at on every
\* Route of the account.
RestoreRoutes(h) ==
  /\ At(h, "restoreRoutes")
  /\ IF request[h].op = "cancelDeletion" THEN Finish(h) ELSE Goto(h, "flushUser")
  /\ routes' = SetState(Routes, "live")
  /\ apart' = {}
  /\ UNCHANGED <<job, missed, account, sessions, purge, day, cut, ops>>

\* googleAuth's update of the user row before the entity is flushed.
ReviveUser(h) ==
  /\ At(h, "reviveUser")
  /\ account' = [account EXCEPT !.deleted = IF account.exists THEN FALSE ELSE @]
  /\ Goto(h, IF request[h].user.pending THEN "flushUser" ELSE "restoreRoutes")
  /\ UNCHANGED <<recordVars, sessions, purge, day, apart, cut, ops>>

\* Mutant: the status is cleared rather than set to active.
FlushedUnset(req) ==
  LET clears == req.user.pending /\ req.op \in {"cancelDeletion", "restoreUser"} IN
  [account EXCEPT
    !.deleted = Column(@, req.user.deleted, req.op \in {"remove", "softDeleteUser"}),
    !.pending = IF req.op = "remove" THEN TRUE ELSE IF clears THEN None ELSE @,
    !.asked = IF req.op = "remove" THEN req.since ELSE IF clears THEN None ELSE @]

\* Mutant: restoreUser clears the date of the request and not the status.
FlushedDateOnly(req) ==
  LET clears == req.user.pending /\ req.op \in {"cancelDeletion", "restoreUser"} IN
  [account EXCEPT
    !.deleted = Column(@, req.user.deleted, req.op \in {"remove", "softDeleteUser"}),
    !.pending = IF req.op = "remove" THEN TRUE ELSE IF clears THEN req.op = "restoreUser" ELSE @,
    !.asked = IF req.op = "remove" THEN req.since ELSE IF clears THEN None ELSE @]

\* The user entity's flush: the columns the request changed.
Flushed(req) ==
  LET clears == req.user.pending /\ req.op \in {"cancelDeletion", "restoreUser"} IN
  [account EXCEPT
    !.deleted = Column(@, req.user.deleted, req.op \in {"remove", "softDeleteUser"}),
    !.pending = IF req.op = "remove" THEN Column(@, req.user.pending, TRUE)
                ELSE IF clears THEN FALSE ELSE @,
    !.asked = IF req.op = "remove" THEN req.since
              ELSE IF clears THEN Column(@, req.user.asked, None) ELSE @]

\* Mutant: remove hides the account and not its Routes.
FlushUserAlone(h) ==
  /\ At(h, "flushUser")
  /\ account' = IF account.exists THEN Flushed(request[h]) ELSE account
  /\ apart' = apart \ request[h].found
  /\ CASE Deleting(h) -> Goto(h, "readSessions")
       [] request[h].op = "cancelDeletion" -> Goto(h, "restoreRoutes")
       [] request[h].op = "googleAuth" -> Goto(h, "createSession")
       [] OTHER -> Finish(h)
  /\ UNCHANGED <<recordVars, sessions, purge, day, cut, ops>>

\* remove flushes the Routes it found with the user, in one transaction.
FlushUser(h) ==
  /\ At(h, "flushUser")
  /\ account' = IF account.exists THEN Flushed(request[h]) ELSE account
  /\ routes' = IF request[h].op = "remove" THEN SetState(request[h].found, "hidden") ELSE routes
  /\ apart' = apart \ request[h].found
  /\ CASE Deleting(h) -> request' = [request EXCEPT ![h].at = "readSessions",
                            ![h].old = {s \in Sessions : sessions[s] = "live"}]
       [] request[h].op = "cancelDeletion" -> Goto(h, "restoreRoutes")
       [] request[h].op = "googleAuth" -> Goto(h, "createSession")
       [] OTHER -> Finish(h)
  /\ UNCHANGED <<job, missed, sessions, purge, day, cut, ops>>

\* Mutant: only one session, the caller's, is revoked.
ReadOneSession(h) ==
  /\ At(h, "readSessions")
  /\ \E s \in Sessions :
       /\ sessions[s] = "live"
       /\ request' = [request EXCEPT ![h].at = "revokeSessions", ![h].sessions = {s}]
  /\ UNCHANGED <<recordVars, accountVars, ops>>

\* invalidateUserSessions reads the rows, then flushes them.
ReadSessions(h) ==
  /\ At(h, "readSessions")
  /\ request' = [request EXCEPT ![h].at = "revokeSessions",
                                ![h].sessions = {s \in Sessions : sessions[s] = "live"}]
  /\ UNCHANGED <<recordVars, accountVars, ops>>
RevokeSessions(h) ==
  /\ At(h, "revokeSessions") /\ Finish(h)
  /\ sessions' = [s \in Sessions |-> IF s \in request[h].sessions THEN "revoked" ELSE sessions[s]]
  /\ UNCHANGED <<recordVars, account, purge, day, apart, cut, ops>>

\* createSession: the insert needs a user row.  findOneOrFail answers from
\* the request's identity map or from the table, where a deleted user is not
\* found, so a login of a deleted account may succeed or fail.
CreateSession(h) ==
  /\ At(h, "createSession") /\ Finish(h)
  /\ \/ /\ account.exists
        /\ \E s \in Sessions : sessions[s] = "unused" /\ sessions' = [sessions EXCEPT ![s] = "live"]
     \/ (~account.exists \/ account.deleted) /\ UNCHANGED sessions
  /\ UNCHANGED <<recordVars, account, purge, day, apart, cut, ops>>

\* createNew's insert fails without the user row it refers to.
InsertRoute(h) ==
  /\ At(h, "insertRoute") /\ Finish(h)
  /\ IF account.exists /\ routes[request[h].route].state = "unused"
       THEN InsertRow(request[h].route, request[h].sent) /\ apart' = apart \cup {request[h].route}
       ELSE UNCHANGED <<recordVars, apart>>
  /\ UNCHANGED <<account, sessions, purge, day, cut, ops>>

FlushRoute(h) ==
  /\ At(h, "flushRoute") /\ Finish(h)
  /\ FlushRow(request[h].route, request[h].loaded, request[h].sent)
  /\ UNCHANGED <<accountVars, ops>>

------------------------------------------------------------------------------
(* Requests of one statement *)

\* remove and hardDelete of RoutesService; softDeleteRoute and restoreRoute
\* of AdminService, which need no session.
SetRoute(r, allowed, state) ==
  /\ allowed /\ ops < MaxOps /\ ops' = ops + 1
  /\ routes' = [routes EXCEPT ![r].state = state]
  /\ apart' = apart \cup {r}
  /\ UNCHANGED <<job, missed, request, account, sessions, purge, day, cut>>
RemoveRoute(r) == SetRoute(r, Live(r) /\ Authenticated, "hidden")
HardDeleteRoute(r) == SetRoute(r, (Live(r) \/ Hidden(r)) /\ Authenticated, "gone")
SoftDeleteRoute(r) == SetRoute(r, Live(r), "hidden")
RestoreRoute(r) == SetRoute(r, Hidden(r), "live")

\* logout, or an expiry that resolveAuthenticatedUser respects and
\* cleanupExpiredSessions records.
EndSession(s) ==
  /\ sessions[s] = "live" /\ ops < MaxOps /\ ops' = ops + 1
  /\ sessions' = [sessions EXCEPT ![s] = "revoked"]
  /\ UNCHANGED <<recordVars, account, request, purge, day, apart, cut>>

------------------------------------------------------------------------------
(* The nightly purge, UsersService.hardDeleteExpiredAccounts *)

Overdue == /\ account.exists /\ account.pending
           /\ account.asked # None /\ account.asked + Grace < day

\* Mutant: the softDelete filter is left on.
ReadExpiredFiltered ==
  /\ purge = "idle" /\ Overdue /\ ~account.deleted
  /\ purge' = "erasing"
  /\ UNCHANGED <<recordVars, account, sessions, request, day, apart, cut, ops>>

\* The accounts past their grace window, then the await of their erasure
\* from the analytics.
ReadExpired ==
  /\ purge = "idle" /\ Overdue
  /\ purge' = "erasing"
  /\ UNCHANGED <<recordVars, account, sessions, request, day, apart, cut, ops>>

\* One transaction deletes by id what was read.
DeleteExpired ==
  /\ purge = "erasing"
  /\ purge' = "idle"
  /\ account' = [account EXCEPT !.exists = FALSE]
  /\ routes' = SetState(Routes, "gone")
  /\ sessions' = [s \in Sessions |-> IF sessions[s] = "unused" THEN "unused" ELSE "revoked"]
  /\ UNCHANGED <<job, missed, request, day, apart, cut, ops>>

\* A process that stops, or a transaction that fails: the next night retries.
PurgeFails ==
  /\ purge = "erasing" /\ ops < MaxOps
  /\ purge' = "idle" /\ ops' = ops + 1
  /\ UNCHANGED <<recordVars, account, sessions, request, day, apart, cut>>

\* A request ends after any of its statements.
Crash(h) ==
  /\ request[h] # Idle /\ ops < MaxOps
  /\ Finish(h) /\ ops' = ops + 1
  /\ cut' = (cut \/ Writer(request[h]))
  /\ UNCHANGED <<recordVars, account, sessions, purge, day, apart>>

NextDay ==
  /\ day < MaxTime /\ day' = day + 1
  /\ UNCHANGED <<recordVars, account, sessions, request, purge, apart, cut, ops>>

Derivation == DerivationStep /\ UNCHANGED <<accountVars, request, ops>>

Arrival(h) ==
  \/ Remove(h) \/ CancelDeletion(h) \/ GoogleAuth(h) \/ Login(h)
  \/ SoftDeleteUser(h) \/ RestoreUser(h)
  \/ \E r \in Routes, g \in Geometries : Create(h, r, g)
  \/ \E r \in Routes, g \in Geometries \cup {None} : Update(h, r, g)
Statement(h) ==
  \/ FindRoutes(h) \/ HideRoutes(h) \/ RestoreRoutes(h) \/ ReviveUser(h) \/ FlushUser(h)
  \/ ReadSessions(h) \/ RevokeSessions(h) \/ CreateSession(h) \/ InsertRoute(h) \/ FlushRoute(h)
OneRoute(r) == RemoveRoute(r) \/ HardDeleteRoute(r) \/ SoftDeleteRoute(r) \/ RestoreRoute(r)
Purge == ReadExpired \/ DeleteExpired

Next ==
  \/ \E h \in Handlers : Arrival(h) \/ Statement(h) \/ Crash(h)
  \/ \E r \in Routes : OneRoute(r)
  \/ \E s \in Sessions : EndSession(s)
  \/ Purge \/ PurgeFails \/ NextDay \/ Derivation

Spec == Init /\ [][Next]_vars

\* The cron runs every night and days pass.
FairSpec == Spec /\ WF_vars(ReadExpired) /\ WF_vars(DeleteExpired) /\ WF_vars(NextDay)

------------------------------------------------------------------------------
(* Properties *)

\* A pending deletion carries the day it was asked for, through any overlap
\* of deletions, cancellations and restores: without it the purge's
\* comparison never holds and the account stays pending for ever.
PendingHasItsDate == account.pending => account.asked # None

\* One at a time, deletions and restores keep account and Routes in step: a
\* deleted account shows no Route and an active one hides none, except those
\* inserted, deleted or restored one by one since.
RoutesFollowTheirAccount ==
  account.exists /\ ~cut /\ ~WriterInFlight =>
    /\ account.deleted => \A r \in Routes : Live(r) => r \in apart
    /\ ~account.deleted /\ ~account.pending => \A r \in Routes : Hidden(r) => r \in apart

\* When a deletion has revoked the account's sessions, none of those that
\* were live when it took effect still is, so none works again when the
\* account comes back; only a login in flight across it can slip through.
DeletionEndsSessions ==
  [][\A h \in Handlers : RevokeSessions(h) =>
       \A s \in request[h].old : sessions'[s] # "live"]_vars

\* A deletion past its grace window is carried out or withdrawn.
ExpiredDeletionsAreCarriedOut == Overdue ~> ~Overdue
=============================================================================
